---- MODULE Spec2Model ----
(***************************************************************************)
(* Model of rsgcata/go-cli-command, package cli.                           *)
(*                                                                         *)
(*   - lockable.go : FsLockableCommand (Lock, Unlock, Exec) over a         *)
(*     file lock shared by several instances / processes.                  *)
(*   - bootstrap.go: runCommand (flag setup, parse, validate, exec with    *)
(*     the deferred recover) and Bootstrap (dispatch, diagnostic, exit).   *)
(*                                                                         *)
(* Strings that the code inspects character by character (command ids,     *)
(* lock names) are sequences of one-character strings.                     *)
(***************************************************************************)
EXTENDS Integers, Sequences, FiniteSets, TLC

(***************************************************************************)
(* Bounds                                                                  *)
(***************************************************************************)
NumInstances == 2

MaxFlags == 2

\* Calls a caller makes on one registry (Register, Commands, Command, a
\* change of a returned map, Bootstrap).
MaxOps == 3

\* Length of the argument vectors handed to parseCmdInput.
MaxArgs == 3

\* Constructor calls made while other instances lock and unlock.
NumCtorLockCalls == 1

\* Exec calls one instance can have in progress at the same time (the code
\* sets no limit: Exec can be called again on an instance by another
\* goroutine or by the wrapped body).
MaxExecs == 2

\* Constructor calls of one run of the constructor specification.
NumCtorCalls == 2

Instances == 1..NumInstances

\* The activations of Exec of one instance.
Activations == 1..MaxExecs

(***************************************************************************)
(* Inputs                                                                  *)
(***************************************************************************)
\* Logical lock names handed to NewLockableCommandWithLockName.  The two
\* names differ but normalize to the same string "a-b".
LockNames == { <<"a", ".", "b">>, <<"a", " ", "b">> }

\* Directory handed to the constructors.
LockDir == "tmp"

\* Id() of the command wrapped by every instance (the tests wrap one mock
\* command in several helpers).
WrappedId == <<"c", "m", "d">>

\* What the wrapped command's Exec can do: return nil, return an error,
\* or panic.
BodyOutcomes == {"nil", "error", "panic"}

(***************************************************************************)
(* Error values                                                            *)
(***************************************************************************)
NilErr == [kind |-> "nil"]

\* filelock.ErrLockHeld of the file-lock library.
ErrLockHeld == [kind |-> "ErrLockHeld"]

\* Any other error of the file-lock library (permission denied, I/O error,
\* missing directory).
ErrInfra == [kind |-> "infra"]

\* var CommandLocked = errors.New("command is locked, skipping execution")
CommandLocked == [kind |-> "CommandLocked"]

\* The error returned by the wrapped command's body.
ErrBody == [kind |-> "body"]

(***************************************************************************)
(* Lock identity                                                           *)
(***************************************************************************)
Alphanumeric ==
    { "a", "b", "c", "d", "e", "f", "g", "h", "i", "j", "k", "l", "m",
      "n", "o", "p", "q", "r", "s", "t", "u", "v", "w", "x", "y", "z",
      "A", "B", "C", "D", "E", "F", "G", "H", "I", "J", "K", "L", "M",
      "N", "O", "P", "Q", "R", "S", "T", "U", "V", "W", "X", "Y", "Z",
      "0", "1", "2", "3", "4", "5", "6", "7", "8", "9" }

RECURSIVE SkipNonAlphanumeric(_)
SkipNonAlphanumeric(s) ==
    IF s = <<>> \/ Head(s) \in Alphanumeric
    THEN s
    ELSE SkipNonAlphanumeric(Tail(s))

\* regexp `[^a-zA-Z0-9]+` replaced by "-": every maximal run of
\* non-alphanumeric characters becomes one "-".
RECURSIVE normalizeCommandId(_)
normalizeCommandId(id) ==
    IF id = <<>> THEN <<>>
    ELSE IF Head(id) \in Alphanumeric
         THEN <<Head(id)>> \o normalizeCommandId(Tail(id))
         ELSE <<"-">> \o normalizeCommandId(SkipNonAlphanumeric(Tail(id)))

\* md5.Sum + hex.EncodeToString: a digest that is a function of the whole
\* name and differs for the distinct names of the model.
md5Sum(name) == <<"md5", name>>

\* The lock file named after the normalized name alone, without the digest.
LockFilePath_NoHash(dir, lockName) ==
    [dir |-> dir, norm |-> normalizeCommandId(lockName), hash |-> <<>>]

\* filepath.Join(dir, "go-cli-command-<normalized>-<md5 hex>.lock")
LockFilePath(dir, lockName) ==
    [dir |-> dir, norm |-> normalizeCommandId(lockName), hash |-> md5Sum(lockName)]

\* NewLockableCommandWithLockName(cmd, lockFileDirPath, lockName)
NewLockableCommandWithLockName(cmdId, dir, lockName) ==
    [Command |-> cmdId, lockFilePath |-> LockFilePath(dir, lockName)]

\* NewLockableCommand that names the lock after the constructor instead of
\* the wrapped command.
NewLockableCommand_FixedName(cmdId, dir) ==
    NewLockableCommandWithLockName(cmdId, dir, <<"l", "o", "c", "k">>)

\* NewLockableCommand(cmd, lockFileDirPath)
NewLockableCommand(cmdId, dir) ==
    NewLockableCommandWithLockName(cmdId, dir, cmdId)

Paths == { LockFilePath(LockDir, n) : n \in LockNames }

VARIABLES
    lockTable,    \* the file system: lock file path -> holding instance, 0 = free
    lockable,     \* instance -> FsLockableCommand{Command, fileLock path}
    pc,           \* instance -> activation -> "idle" | "running" | "deferred" (position in Exec)
    acquired,     \* instance -> a Lock() of it returned true and it has not released since
    outstanding,  \* instance -> a direct Lock() of it returned true and no Unlock() of it, direct or deferred, returned nil since
    execLocked,   \* instance -> activation -> the local `locked` of that Exec in progress
    bodyOutcome,  \* instance -> activation -> how the wrapped body of that Exec ended
    executed,     \* instance -> MockLockableCommand.executed of the wrapped command
    last          \* the call that completed (or, for Exec, advanced) last, with its results

lockVars == <<lockTable, lockable, pc, acquired, outstanding, execLocked, bodyOutcome, executed, last>>

VARIABLES
    registry,     \* CommandsRegistry.commands: id -> command
    argv,         \* the args handed to Bootstrap
    bpc,          \* position of the dispatch in Bootstrap / runCommand
    cmdId,        \* Bootstrap's cmdId
    cmdArgs,      \* Bootstrap's cmdArgs, the args of runCommand
    cmdErr,       \* the named result cmdErr of runCommand, then Bootstrap's cmdErr
    panicVal,     \* payload of the panic in flight, NoPanic if none
    calls,        \* the calls made on the dispatched command, in order
    output,       \* the byte slices handed to outputWriter.Write, in order
    outputErr,    \* outputErr of Bootstrap: what the Write of the diagnostic returned
    stdout,       \* what Bootstrap printed to standard output with fmt.Printf
    exits         \* the codes passed to processExit, in order

runVars ==
    <<registry, argv, bpc, cmdId, cmdArgs, cmdErr, panicVal, calls, output, outputErr, stdout, exits>>

VARIABLES
    flagDefs,     \* FlagDefinitionMap of the command: name -> definition
    flagArgs,     \* the flags supplied on the command line: name -> value
    flagValues,   \* the flag set after Parse: name -> Value.String()
    vpc,          \* "setup" | "parsed" | "validated"
    violations    \* the errors returned by validateFlags

valVars == <<flagDefs, flagArgs, flagValues, vpc, violations>>

VARIABLES
    registered,   \* history: id -> the command a Register of which returned nil
    returned,     \* the maps handed out by Commands(), in order: [ref, m]
    regLast,      \* the call on the registry that completed last, with its results
    ops           \* number of calls the caller of the registry has made

regVars == <<registered, returned, regLast, ops>>

VARIABLES
    pargs,        \* the args handed to parseCmdInput
    ppc,          \* "call" | "done"
    pret          \* what parseCmdInput returned: [cmdName, cmdArgs]

parseVars == <<pargs, ppc, pret>>

VARIABLES
    ctorArgs,     \* the arguments of the constructor calls to make, in order
    built         \* the FsLockableCommand values the constructor calls returned, in order

idVars == <<ctorArgs, built>>

vars == <<lockVars, runVars, valVars, regVars, parseVars, idVars>>

PathOf(i) == lockable[i].lockFilePath

NoErr == [kind |-> "none"]

NoLockRet == [locked |-> FALSE, err |-> NoErr]

NoExecRet == [kind |-> "none", err |-> NoErr]

\* The record kept in `last`:
\*   op        "Lock" | "Unlock" | "Exec" (a finished Exec) | "ExecBody" (Exec
\*             has locked and called the wrapped command) | "New" (a
\*             constructor call, inst 0) | "none"
\*   inst      the instance the call was made on
\*   flErr     error of the fileLock.Lock() made by the call
\*   lockRet   result of the l.Lock() made by the call
\*   unlockRet error of the l.Unlock() made by the call
\*   bodyRuns  times Exec called the wrapped command's Exec
\*   unlocks   times Exec called l.Unlock()
\*   ret       what Exec returned, or the panic it let through
\*   prevOp, prevInst  op and inst of the call recorded before this one
Event(op, i, fe, lr, ur, runs, unlocks, ret) ==
    [op |-> op, inst |-> i, flErr |-> fe, lockRet |-> lr, unlockRet |-> ur,
     bodyRuns |-> runs, unlocks |-> unlocks, ret |-> ret,
     prevOp |-> "none", prevInst |-> 0]

After(prev, e) == [e EXCEPT !.prevOp = prev.op, !.prevInst = prev.inst]

(***************************************************************************)
(* The file lock (github.com/rsgcata/go-fs/filelock), per the contract     *)
(* the wrapper relies on.                                                  *)
(***************************************************************************)
\* A wait-lock: the call returns only once the lock is free.
FileLockLockReturns_WhenFree(tbl, path) == tbl[path] = 0

\* Whether a call of fileLock.Lock() made now returns: a try-lock returns
\* whatever the state of the lock.
FileLockLockReturns(tbl, path) == TRUE

\* fileLock.Lock(): try-lock.  fault = the file system fails.
FileLockLock(tbl, path, i, fault) ==
    IF fault THEN [err |-> ErrInfra, tbl |-> tbl]
    ELSE IF tbl[path] # 0 THEN [err |-> ErrLockHeld, tbl |-> tbl]
    ELSE [err |-> NilErr, tbl |-> [tbl EXCEPT ![path] = i]]

\* A constructor of the file lock that takes the lock at once: a free lock
\* file is held by the new handle (one that no instance of the model uses).
FileLockNew_Acquires(tbl, path) ==
    IF path \in DOMAIN tbl /\ tbl[path] = 0
    THEN [tbl EXCEPT ![path] = NumInstances + 1]
    ELSE tbl

\* fs.New(lockFilePath): the handle is built from the path; the lock file is
\* created or opened by Lock(), not here, so the file system stays as it is.
FileLockNew(tbl, path) == tbl

\* An Unlock() that releases the lock file whoever holds it.
FileLockUnlock_ReleasesAny(tbl, path, i, fault) ==
    IF fault THEN [err |-> ErrInfra, tbl |-> tbl]
    ELSE [err |-> NilErr, tbl |-> [tbl EXCEPT ![path] = 0]]

\* An Unlock() that removes the lock file when the handle holds nothing.
FileLockUnlock_RemovesFile(tbl, path, i, fault) ==
    IF tbl[path] # i THEN [err |-> NilErr, tbl |-> [tbl EXCEPT ![path] = 0]]
    ELSE IF fault THEN [err |-> ErrInfra, tbl |-> tbl]
    ELSE [err |-> NilErr, tbl |-> [tbl EXCEPT ![path] = 0]]

\* fileLock.Unlock(): releases the lock this handle holds; on a handle that
\* holds nothing it is a no-op.
FileLockUnlock(tbl, path, i, fault) ==
    IF tbl[path] # i THEN [err |-> NilErr, tbl |-> tbl]
    ELSE IF fault THEN [err |-> ErrInfra, tbl |-> tbl]
    ELSE [err |-> NilErr, tbl |-> [tbl EXCEPT ![path] = 0]]

(***************************************************************************)
(* FsLockableCommand                                                       *)
(***************************************************************************)
\* errors.Is(err, filelock.ErrLockHeld)
ErrorsIs(err, target) == err = target

\* An error that neither names the command nor wraps the cause.
LockFailed_Opaque(id, err) == [kind |-> "lockFailed", id |-> <<>>, cause |-> NoErr]

\* fmt.Errorf("failed to acquire lock for command %s: %w", l.Id(), err)
LockFailed(id, err) == [kind |-> "lockFailed", id |-> id, cause |-> err]

\* Lock() without the errors.Is branch taking effect: a held lock counts as
\* acquired.
Lock_IgnoresHeld(id, err) ==
    IF err # NilErr /\ ~ErrorsIs(err, ErrLockHeld)
    THEN [locked |-> FALSE, err |-> LockFailed(id, err)]
    ELSE [locked |-> TRUE, err |-> NilErr]

\* Lock() without the errors.Is branch: a held lock is reported as a failure.
Lock_HeldIsFailure(id, err) ==
    IF err # NilErr
    THEN [locked |-> FALSE, err |-> LockFailed(id, err)]
    ELSE [locked |-> TRUE, err |-> NilErr]

\* Lock() that treats every error of the file lock as "held".
Lock_SwallowsFailure(id, err) ==
    IF err # NilErr
    THEN [locked |-> FALSE, err |-> NilErr]
    ELSE [locked |-> TRUE, err |-> NilErr]

\* func (l *FsLockableCommand) Lock() (bool, error), given the error of
\* l.fileLock.Lock()
Lock(id, err) ==
    IF err # NilErr
    THEN IF ErrorsIs(err, ErrLockHeld)
         THEN [locked |-> FALSE, err |-> NilErr]
         ELSE [locked |-> FALSE, err |-> LockFailed(id, err)]
    ELSE [locked |-> TRUE, err |-> NilErr]

\* func (l *FsLockableCommand) Unlock() error, given the error of
\* l.fileLock.Unlock()
Unlock(err) == err

\* Exec that calls the wrapped command whenever Lock() gave no error.
ExecBranch_RunsUnlocked(ret) ==
    IF ret.err # NilErr THEN "fail" ELSE "run"

\* func (l *FsLockableCommand) Exec: what Exec does with the result of
\* l.Lock(): "fail" returns err, "skip" returns CommandLocked, "run"
\* registers the deferred Unlock and calls the wrapped command.
ExecBranch(ret) ==
    IF ret.err # NilErr THEN "fail"
    ELSE IF ret.locked THEN "run"
    ELSE "skip"

\* The value Exec returns without calling the wrapped command.
ExecEarlyReturn_NilWhenLocked(branch, ret) ==
    IF branch = "fail" THEN ret.err ELSE NilErr

\* func (l *FsLockableCommand) Exec: `return err` after a failed Lock(),
\* `return CommandLocked` when the lock was not acquired.
ExecEarlyReturn(branch, ret) ==
    IF branch = "fail" THEN ret.err ELSE CommandLocked

\* Unlock() called after the body instead of deferred: skipped by a panic.
ExecDeferredUnlocks_NotOnPanic(outcome) ==
    IF outcome \in BodyOutcomes \ {"panic"} THEN 1 ELSE 0

\* Number of l.Unlock() calls Exec makes after the wrapped command's Exec
\* ended with the given outcome: the call is deferred, so it runs once on a
\* return and on a panic alike.
ExecDeferredUnlocks(outcome) == IF outcome \in BodyOutcomes THEN 1 ELSE 0

\* Exec that wraps the error of the wrapped command into one of its own.
ExecResult_Wrapped(outcome) ==
    CASE outcome = "nil"   -> [kind |-> "return", err |-> NilErr]
      [] outcome = "error" -> [kind |-> "return", err |-> LockFailed(WrappedId, ErrBody)]
      [] outcome = "panic" -> [kind |-> "panic", err |-> NoErr]

\* The value Exec returns (or the panic it lets through) on the "run"
\* branch, given how the wrapped command's Exec ended.
ExecResult(outcome) ==
    CASE outcome = "nil"   -> [kind |-> "return", err |-> NilErr]
      [] outcome = "error" -> [kind |-> "return", err |-> ErrBody]
      [] outcome = "panic" -> [kind |-> "panic", err |-> NoErr]

\* Instance 1 is built with the first lock name, every other instance with
\* any of the names (the names are interchangeable: the only thing an
\* instance does with its name is build its path).
InitLock ==
    /\ lockTable = [p \in Paths |-> 0]
    /\ lockable \in [Instances ->
                       { NewLockableCommandWithLockName(WrappedId, LockDir, n) :
                             n \in LockNames }]
    /\ lockable[1] = NewLockableCommandWithLockName(WrappedId, LockDir, <<"a", ".", "b">>)
    /\ pc = [i \in Instances |-> [a \in Activations |-> "idle"]]
    /\ acquired = [i \in Instances |-> FALSE]
    /\ outstanding = [i \in Instances |-> FALSE]
    /\ execLocked = [i \in Instances |-> [a \in Activations |-> FALSE]]
    /\ bodyOutcome = [i \in Instances |-> [a \in Activations |-> "none"]]
    /\ executed = [i \in Instances |-> FALSE]
    /\ last = Event("none", 0, NoErr, NoLockRet, NoErr, 0, 0, NoExecRet)

\* A direct call of l.Lock() on instance i, by its user or by the wrapped
\* body, whether or not an Exec of the instance is in progress.
LockCall(i) ==
    /\ FileLockLockReturns(lockTable, PathOf(i))
    /\ \E fault \in BOOLEAN :
        LET fl  == FileLockLock(lockTable, PathOf(i), i, fault)
            ret == Lock(lockable[i].Command, fl.err)
        IN /\ lockTable' = fl.tbl
           /\ acquired' = [acquired EXCEPT ![i] = @ \/ ret.locked]
           /\ outstanding' = [outstanding EXCEPT ![i] = @ \/ ret.locked]
           /\ last' = After(last, Event("Lock", i, fl.err, ret, NoErr, 0, 0, NoExecRet))
    /\ UNCHANGED <<lockable, pc, execLocked, bodyOutcome, executed, runVars, valVars, regVars, parseVars, idVars>>

\* A direct call of l.Unlock() on instance i, by its user or by the wrapped
\* body, whether or not an Exec of the instance is in progress.
UnlockCall(i) ==
    /\ \E fault \in BOOLEAN :
        LET fl == FileLockUnlock(lockTable, PathOf(i), i, fault)
        IN /\ lockTable' = fl.tbl
           /\ acquired' = [acquired EXCEPT ![i] = @ /\ fl.err # NilErr]
           /\ outstanding' = [outstanding EXCEPT ![i] = @ /\ fl.err # NilErr]
           /\ last' = After(last, Event("Unlock", i, NoErr, NoLockRet, Unlock(fl.err), 0, 0, NoExecRet))
    /\ UNCHANGED <<lockable, pc, execLocked, bodyOutcome, executed, runVars, valVars, regVars, parseVars, idVars>>

\* The activations of instance i in which no Exec is in progress.
FreeActivations(i) == { a \in Activations : pc[i][a] = "idle" }

\* The activation a new Exec of instance i runs in.
NextActivation(i) ==
    CHOOSE a \in FreeActivations(i) : \A b \in FreeActivations(i) : a <= b

\* Exec, first part: l.Lock(), then return at once or call the wrapped body.
\* Exec can be called on instance i whatever its other Exec calls are doing;
\* a call that reaches the wrapped body needs a free activation.
ExecLock(i) ==
    /\ FileLockLockReturns(lockTable, PathOf(i))
    /\ \E fault \in BOOLEAN :
        LET fl     == FileLockLock(lockTable, PathOf(i), i, fault)
            ret    == Lock(lockable[i].Command, fl.err)
            branch == ExecBranch(ret)
        IN /\ lockTable' = fl.tbl
           /\ acquired' = [acquired EXCEPT ![i] = @ \/ ret.locked]
           /\ CASE branch = "fail" ->
                     /\ last' = After(last, Event("Exec", i, fl.err, ret, NoErr, 0, 0,
                                      [kind |-> "return", err |-> ExecEarlyReturn(branch, ret)]))
                     /\ UNCHANGED <<pc, execLocked, executed>>
                [] branch = "skip" ->
                     /\ last' = After(last, Event("Exec", i, fl.err, ret, NoErr, 0, 0,
                                      [kind |-> "return", err |-> ExecEarlyReturn(branch, ret)]))
                     /\ UNCHANGED <<pc, execLocked, executed>>
                [] branch = "run" ->
                     /\ FreeActivations(i) # {}
                     /\ pc' = [pc EXCEPT ![i][NextActivation(i)] = "running"]
                     /\ execLocked' = [execLocked EXCEPT ![i][NextActivation(i)] = ret.locked]
                     /\ executed' = [executed EXCEPT ![i] = TRUE]
                     /\ last' = After(last, Event("ExecBody", i, fl.err, ret, NoErr, 1, 0, NoExecRet))
    /\ UNCHANGED <<lockable, outstanding, bodyOutcome, runVars, valVars, regVars, parseVars, idVars>>

\* Exec, second part: the wrapped command's Exec returns or panics.
ExecBodyEnds(i) ==
    /\ \E a \in Activations :
          /\ pc[i][a] = "running"
          /\ \E o \in BodyOutcomes : bodyOutcome' = [bodyOutcome EXCEPT ![i][a] = o]
          /\ pc' = [pc EXCEPT ![i][a] = "deferred"]
    /\ UNCHANGED <<lockTable, lockable, acquired, outstanding, execLocked, executed, last, runVars, valVars, regVars, parseVars, idVars>>

\* Exec, last part: the deferred `_ = l.Unlock()` runs (its error is
\* dropped), then Exec returns the body's result or lets its panic through.
ExecDeferred(i) ==
    /\ \E a \in Activations, fault \in BOOLEAN :
        LET n  == ExecDeferredUnlocks(bodyOutcome[i][a])
            fl == FileLockUnlock(lockTable, PathOf(i), i, fault)
        IN /\ pc[i][a] = "deferred"
           /\ IF n > 0
              THEN /\ lockTable' = fl.tbl
                   /\ acquired' = [acquired EXCEPT ![i] = @ /\ fl.err # NilErr]
                   /\ outstanding' = [outstanding EXCEPT ![i] = @ /\ fl.err # NilErr]
                   /\ last' = After(last, Event("Exec", i, NoErr, [locked |-> execLocked[i][a], err |-> NilErr],
                                    Unlock(fl.err), 1, n, ExecResult(bodyOutcome[i][a])))
              ELSE /\ UNCHANGED <<lockTable, acquired, outstanding>>
                   /\ last' = After(last, Event("Exec", i, NoErr, [locked |-> execLocked[i][a], err |-> NilErr],
                                    NoErr, 1, n, ExecResult(bodyOutcome[i][a])))
           /\ pc' = [pc EXCEPT ![i][a] = "idle"]
           /\ execLocked' = [execLocked EXCEPT ![i][a] = FALSE]
           /\ bodyOutcome' = [bodyOutcome EXCEPT ![i][a] = "none"]
    /\ UNCHANGED <<lockable, executed, runVars, valVars, regVars, parseVars, idVars>>

(***************************************************************************)
(* bootstrap.go: texts and errors                                          *)
(***************************************************************************)
\* A text is a sequence of pieces; the pieces of an id are its characters,
\* a literal of the code is one piece.

\* strings.Contains(s, sub)
Contains(s, sub) ==
    \E k \in 0..(Len(s) - Len(sub)) : SubSeq(s, k + 1, k + Len(sub)) = sub

\* Number of places where sub occurs in s.
Occurrences(s, sub) ==
    Cardinality({ k \in 0..(Len(s) - Len(sub)) : SubSeq(s, k + 1, k + Len(sub)) = sub })

\* An error value with the given Error() text.
Err(kind, text) == [kind |-> kind, text |-> text]

FailedPrefix == <<"Failed to execute command ">>

\* fmt.Sprintf("Failed to execute command %s with error: %s\n", cmdId, cmdErr.Error())
FailedToExecute(id, err) ==
    FailedPrefix \o id \o <<" with error: ">> \o err.text \o <<"\n">>

\* fmt.Errorf("The command %s does not exist\n", cmdId)
DoesNotExist(id) ==
    Err("notFound", <<"The command ">> \o id \o <<" ", "does not exist", "\n">>)

\* fmt.Errorf("command '%s' is already registered", cmd.Id())
AlreadyRegistered(id) ==
    Err("duplicate", <<"command '">> \o id \o <<"' is ", "already registered">>)

\* The error flagSet.Parse returns for a malformed argument vector.
ErrParse == Err("parse", <<"flag provided but not defined">>)

\* The error a command's ValidateFlags returns.
ErrValidate == Err("validate", <<"count-to and count-delay must be greater than 0">>)

\* The error a command's Exec returns.
ErrExec == Err("exec", <<"command error">>)

\* panic(errors.New("panic error")): a payload that is an error value.
PanicWithError == [type |-> "error", text |-> <<"panic error">>]

\* panic("implement me"): a payload that is a string.
PanicWithString == [type |-> "string", text |-> <<"implement me">>]

NoPanic == [type |-> "none", text |-> <<>>]

\* The run-time panic of a failed type assertion x.(error).
TypeAssertionPanic(payload) ==
    [type |-> "runtime.TypeAssertionError",
     text |-> <<"interface conversion: ", payload.type,
                " is not error: missing method Error">>]

StatusOk == 0

StatusErr == 1

(***************************************************************************)
(* bootstrap.go: commands and registry                                     *)
(***************************************************************************)
HelpId == <<"h", "e", "l", "p">>

GreetId == <<"g", "r", "e", "e", "t">>

\* Ids of the commands a user registers.
UserIds == { GreetId, <<"r", "u", "n">> }

\* A user command (a mock whose DefineFlags, ValidateFlags and Exec may do
\* anything a Go method can do).
UserCommand(id) == [id |-> id, type |-> "user", availableCommands |-> {}]

\* &HelpCommand{CommandWithoutFlags{}, slices.Collect(maps.Values(...))}
HelpCommand(commands) == [id |-> HelpId, type |-> "help", availableCommands |-> commands]

\* Register without the test for an existing entry: the command is stored
\* over the one already there.
Register_Overwrites(reg, cmd) ==
    [err |-> NilErr, commands |-> [i \in DOMAIN reg \cup {cmd.id} |->
                                      IF i = cmd.id THEN cmd ELSE reg[i]]]

\* Register that reports the duplicate after it has stored the command.
Register_StoresThenRefuses(reg, cmd) ==
    [err |-> IF cmd.id \in DOMAIN reg THEN AlreadyRegistered(cmd.id) ELSE NilErr,
     commands |-> [i \in DOMAIN reg \cup {cmd.id} |->
                     IF i = cmd.id THEN cmd ELSE reg[i]]]

\* func (registry *CommandsRegistry) Register(cmd Command) error
Register(reg, cmd) ==
    IF cmd.id \in DOMAIN reg
    THEN [err |-> AlreadyRegistered(cmd.id), commands |-> reg]
    ELSE [err |-> NilErr, commands |-> [i \in DOMAIN reg \cup {cmd.id} |->
                                           IF i = cmd.id THEN cmd ELSE reg[i]]]

\* func (registry *CommandsRegistry) Commands() map[string]Command
Commands(reg) == [i \in DOMAIN reg |-> reg[i]]

\* maps.Values(m), collected: the commands of the mapping.
Values(m) == { m[i] : i \in DOMAIN m }

\* Command that reports every id as found.
Command_FindsAny(reg, id) ==
    [cmd |-> IF id \in DOMAIN reg THEN reg[id] ELSE UserCommand(<<>>), ok |-> TRUE]

\* func (registry *CommandsRegistry) Command(id string) (Command, bool)
Command(reg, id) ==
    IF id \in DOMAIN reg
    THEN [cmd |-> reg[id], ok |-> TRUE]
    ELSE [cmd |-> UserCommand(<<>>), ok |-> FALSE]

\* NewCommandsRegistry() followed by Register of the given user commands.
RegistryOf(ids) == [i \in ids |-> UserCommand(i)]

(***************************************************************************)
(* bootstrap.go: parseCmdInput                                             *)
(***************************************************************************)
\* The characters unicode.IsSpace accepts, which strings.TrimSpace removes:
\* '\t', '\n', '\v', '\f', '\r', ' ', U+0085, U+00A0 and the other code
\* points of the category White_Space.  A character is a string of one
\* character; a code point that has no escape in a string is written by its
\* number.
Whitespace ==
    { " ", "\t", "\n", "\f", "\r", "U+000B", "U+0085", "U+00A0", "U+1680",
      "U+2000", "U+2001", "U+2002", "U+2003", "U+2004", "U+2005", "U+2006",
      "U+2007", "U+2008", "U+2009", "U+200A", "U+2028", "U+2029", "U+202F",
      "U+205F", "U+3000" }

RECURSIVE TrimLeft(_)
TrimLeft(s) ==
    IF s # <<>> /\ Head(s) \in Whitespace THEN TrimLeft(Tail(s)) ELSE s

RECURSIVE TrimRight(_)
TrimRight(s) ==
    IF s # <<>> /\ s[Len(s)] \in Whitespace
    THEN TrimRight(SubSeq(s, 1, Len(s) - 1))
    ELSE s

\* strings.TrimSpace
TrimSpace(s) == TrimRight(TrimLeft(s))

\* The bare separator token "--".
Separator == <<"-", "-">>

\* parseCmdInput of the alternate revision (bootstrap.go:292-305): the
\* separator is dropped only if another token follows it.
parseCmdInput_KeepsLoneSeparator(args) ==
    LET rest == IF Len(args) > 1 /\ args[1] = Separator THEN Tail(args) ELSE args
    IN IF Len(rest) # 0
       THEN [cmdName |-> TrimSpace(rest[1]), cmdArgs |-> Tail(rest)]
       ELSE [cmdName |-> <<>>, cmdArgs |-> <<>>]

\* func parseCmdInput(args []string) (cmdName string, cmdArgs []string)
parseCmdInput(args) ==
    IF Len(args) = 0
    THEN [cmdName |-> <<>>, cmdArgs |-> <<>>]
    ELSE LET rest == IF args[1] = Separator THEN Tail(args) ELSE args
         IN IF Len(rest) # 0
            THEN [cmdName |-> TrimSpace(rest[1]), cmdArgs |-> Tail(rest)]
            ELSE [cmdName |-> <<>>, cmdArgs |-> <<>>]

(***************************************************************************)
(* bootstrap.go: runCommand                                                *)
(***************************************************************************)
\* What a call of a method of the dispatched command can do.  The built-in
\* help command embeds CommandWithoutFlags and its Exec only prints.
\* "parsed" and "parsedError": DefineFlags defined its flags and called
\* flagSet.Parse itself, which parsed or failed (DefineFlags returns nothing,
\* so the error stays with the command).
DefineFlagsOutcomes(cmd) ==
    IF cmd.type = "help"
    THEN {"ok"}
    ELSE {"ok", "parsed", "parsedError", "panicError", "panicString"}

\* A flag set that counts as parsed only after a Parse that succeeded.
FlagSetParsed_OnSuccess(cs) ==
    \E k \in DOMAIN cs : cs[k].name = "DefineFlags" /\ cs[k].outcome = "parsed"

\* flagSet.Parsed() after cmd.DefineFlags(flagSet) made the calls cs: true if
\* flagSet.Parse was called, whether or not it returned an error.
FlagSetParsed(cs) ==
    \E k \in DOMAIN cs :
        cs[k].name = "DefineFlags" /\ cs[k].outcome \in {"parsed", "parsedError"}

ValidateFlagsOutcomes(cmd) ==
    IF cmd.type = "help" THEN {"nil"} ELSE {"nil", "error", "panicError", "panicString"}

ExecOutcomes(cmd) ==
    IF cmd.type = "help" THEN {"nil"} ELSE {"nil", "error", "panicError", "panicString"}

\* flagSet.Parse(args): an empty argument vector always parses.
ParseOutcomes(args) == IF args = <<>> THEN {"ok"} ELSE {"ok", "error"}

PanicOf(outcome) ==
    CASE outcome = "panicError"  -> PanicWithError
      [] outcome = "panicString" -> PanicWithString
      [] OTHER -> NoPanic

\* What the output writer receives from flagSet.Parse on a parse error: the
\* error and flagSet.Usage ("Usage of <id>:" and the defaults).
ParseFailureOutput(id) == ErrParse.text \o <<"\n", "Usage of ">> \o id \o <<":\n">>

\* What a successful Exec of the command writes to stdWriter.
ExecOutput(cmd) ==
    IF cmd.type = "help"
    THEN <<"Available commands:">>
    ELSE <<"Command executed successfully">>

\* One entry of `calls`: the method called and what it did.
Call(name, outcome) == [name |-> name, outcome |-> outcome]

\* `return cmdErr` after flagSet.Parse, cmd.ValidateFlags or cmd.Exec set
\* cmdErr to a non-nil error: the error is returned as it is.
runCommandError(id, err) == err

\* runCommand without the `return cmdErr` after a failed Parse.
AfterParse_Continues(err) == "validate"

\* The stage runCommand goes to after flagSet.Parse returned err.
AfterParse(err) == IF err # NilErr THEN "return" ELSE "validate"

\* runCommand without the `return cmdErr` after a failed ValidateFlags.
AfterValidate_Continues(err) == "exec"

\* The stage runCommand goes to after cmd.ValidateFlags returned err.
AfterValidate(err) == IF err # NilErr THEN "return" ELSE "exec"

\* The deferred function of runCommand:
\*     if err := recover(); err != nil { cmdErr = err.(error) }
\* An error payload becomes the result; for any other payload the type
\* assertion itself panics and that panic leaves runCommand.
Recover(payload) ==
    IF payload.type = "error"
    THEN [cmdErr |-> Err("recovered", payload.text), panic |-> NoPanic]
    ELSE [cmdErr |-> NilErr, panic |-> TypeAssertionPanic(payload)]

(***************************************************************************)
(* bootstrap.go: Bootstrap                                                 *)
(***************************************************************************)
\* Argument vectors handed to Bootstrap.
ArgVectors ==
    { <<>>,
      <<Separator>>,
      <<GreetId>>,
      <<Separator, GreetId>>,
      <<<<" ", "g", "r", "e", "e", "t", " ">>>>,
      <<<<"g", "r", "e", "e", "t", "\r">>>>,
      <<<<"\r", "U+00A0">>>>,
      <<GreetId, <<"-", "-", "n", "a", "m", "e">>, <<"A", "d", "a">>>>,
      <<HelpId>>,
      <<<<"u", "n", "k", "n", "o", "w", "n">>>> }

\* The dispatched command.
DispatchedCommand == Command(registry, cmdId).cmd

InitIdle ==
    /\ registry = RegistryOf({})
    /\ argv = <<>>
    /\ bpc = "idle"
    /\ cmdId = <<>>
    /\ cmdArgs = <<>>
    /\ cmdErr = NilErr
    /\ panicVal = NoPanic
    /\ calls = <<>>
    /\ output = <<>>
    /\ outputErr = NilErr
    /\ stdout = <<>>
    /\ exits = <<>>

InitRun ==
    /\ registry \in { RegistryOf(ids) : ids \in SUBSET UserIds }
    /\ argv \in ArgVectors
    /\ bpc = "idle"
    /\ cmdId = <<>>
    /\ cmdArgs = <<>>
    /\ cmdErr = NilErr
    /\ panicVal = NoPanic
    /\ calls = <<>>
    /\ output = <<>>
    /\ outputErr = NilErr
    /\ stdout = <<>>
    /\ exits = <<>>

\* Bootstrap that runs the command whether or not the lookup found one.
AfterLookup_Runs(exists) == "define"

\* Where Bootstrap goes after availableCommands.Command(cmdId): to runCommand
\* if the command exists, to the report of the error if not.
AfterLookup(exists) == IF exists THEN "define" ELSE "report"

\* Bootstrap up to the call of runCommand: register the help command, parse
\* the input, look the command up.
BootstrapDispatch ==
    /\ bpc = "idle"
    /\ LET help   == HelpCommand(Values(Commands(registry)))
           reg    == Register(registry, help)
           parsed == parseCmdInput(argv)
           id     == IF parsed.cmdName = <<>> THEN HelpId ELSE parsed.cmdName
           found  == Command(reg.commands, id)
       IN /\ registry' = reg.commands
          /\ registered' = IF reg.err = NilErr
                           THEN Register(registered, help).commands
                           ELSE registered
          /\ cmdId' = id
          /\ cmdArgs' = parsed.cmdArgs
          /\ cmdErr' = IF found.ok THEN NilErr ELSE DoesNotExist(id)
          /\ bpc' = AfterLookup(found.ok)
    /\ calls' = <<>>
    /\ output' = <<>>
    /\ outputErr' = NilErr
    /\ stdout' = <<>>
    /\ exits' = <<>>
    /\ panicVal' = NoPanic
    /\ UNCHANGED <<argv, returned, regLast, ops, lockVars, valVars, parseVars, idVars>>

\* runCommand: setupFlagSet, then cmd.DefineFlags(flagSet).
RunDefineFlags ==
    /\ bpc = "define"
    /\ \E o \in DefineFlagsOutcomes(DispatchedCommand) :
          /\ calls' = Append(calls, Call("DefineFlags", o))
          /\ panicVal' = PanicOf(o)
          /\ output' = IF o = "parsedError"
                       THEN Append(output, ParseFailureOutput(cmdId))
                       ELSE output
          /\ bpc' = IF PanicOf(o) = NoPanic THEN "parse" ELSE "return"
    /\ UNCHANGED <<registry, argv, cmdId, cmdArgs, cmdErr, outputErr, stdout, exits, lockVars, valVars, regVars, parseVars, idVars>>

\* runCommand: if !flagSet.Parsed() { flagSet.Parse(args) }.
RunParse ==
    /\ bpc = "parse"
    /\ IF FlagSetParsed(calls)
       THEN /\ bpc' = "validate"
            /\ UNCHANGED <<calls, cmdErr, output>>
       ELSE \E o \in ParseOutcomes(cmdArgs) :
               LET err == IF o = "ok" THEN NilErr ELSE ErrParse
               IN /\ calls' = Append(calls, Call("Parse", o))
                  /\ cmdErr' = IF err # NilErr THEN runCommandError(cmdId, err) ELSE NilErr
                  /\ output' = IF err # NilErr
                               THEN Append(output, ParseFailureOutput(cmdId))
                               ELSE output
                  /\ bpc' = AfterParse(err)
    /\ UNCHANGED <<registry, argv, cmdId, cmdArgs, panicVal, outputErr, stdout, exits, lockVars, valVars, regVars, parseVars, idVars>>

\* runCommand: cmd.ValidateFlags().
RunValidateFlags ==
    /\ bpc = "validate"
    /\ \E o \in ValidateFlagsOutcomes(DispatchedCommand) :
          LET err == IF o = "error" THEN ErrValidate ELSE NilErr
          IN /\ calls' = Append(calls, Call("ValidateFlags", o))
             /\ panicVal' = PanicOf(o)
             /\ cmdErr' = IF err # NilErr THEN runCommandError(cmdId, err) ELSE NilErr
             /\ bpc' = IF PanicOf(o) # NoPanic THEN "return" ELSE AfterValidate(err)
    /\ UNCHANGED <<registry, argv, cmdId, cmdArgs, output, outputErr, stdout, exits, lockVars, valVars, regVars, parseVars, idVars>>

\* runCommand: cmd.Exec(outputWriter).
RunExec ==
    /\ bpc = "exec"
    /\ \E o \in ExecOutcomes(DispatchedCommand) :
          LET err == IF o = "error" THEN ErrExec ELSE NilErr
          IN /\ calls' = Append(calls, Call("Exec", o))
             /\ panicVal' = PanicOf(o)
             /\ cmdErr' = IF err # NilErr THEN runCommandError(cmdId, err) ELSE NilErr
             /\ output' = IF o = "nil"
                          THEN Append(output, ExecOutput(DispatchedCommand))
                          ELSE output
             /\ bpc' = "return"
    /\ UNCHANGED <<registry, argv, cmdId, cmdArgs, outputErr, stdout, exits, lockVars, valVars, regVars, parseVars, idVars>>

\* runCommand ends: the deferred function runs, then runCommand returns
\* cmdErr to Bootstrap or a panic leaves runCommand and, Bootstrap having no
\* recover, Bootstrap as well.
RunReturn ==
    /\ bpc = "return"
    /\ IF panicVal = NoPanic
       THEN /\ bpc' = "report"
            /\ UNCHANGED <<cmdErr, panicVal>>
       ELSE LET r == Recover(panicVal)
            IN /\ cmdErr' = r.cmdErr
               /\ panicVal' = r.panic
               /\ bpc' = IF r.panic = NoPanic THEN "report" ELSE "crashed"
    /\ UNCHANGED <<registry, argv, cmdId, cmdArgs, calls, output, outputErr, stdout, exits, lockVars, valVars, regVars, parseVars, idVars>>

\* Bootstrap that writes the diagnostic whatever runCommand returned.
BootstrapDiagnostic_Always(id, err) == << FailedPrefix \o id >>

\* What Bootstrap writes to outputWriter after runCommand (or after the
\* failed lookup): the formatted diagnostic if cmdErr != nil, nothing if not.
BootstrapDiagnostic(id, err) ==
    IF err # NilErr THEN << FailedToExecute(id, err) >> ELSE << >>

\* Bootstrap that takes a skipped execution for a success.
ExitStatus_LockedIsOk(err) ==
    IF err # NilErr /\ err.kind # "CommandLocked" THEN StatusErr ELSE StatusOk

\* The code Bootstrap passes to processExit: StatusErr in the branch
\* cmdErr != nil, StatusOk after it.
ExitStatus(err) == IF err # NilErr THEN StatusErr ELSE StatusOk

\* The error a failing outputWriter returns from Write.
ErrWrite == Err("write", <<"write failed">>)

\* What outputWriter.Write can return to Bootstrap as outputErr: nil or an
\* error when the diagnostic is written, nil when nothing is written.
WriteResults(err) == IF err # NilErr THEN {NilErr, ErrWrite} ELSE {NilErr}

\* reflect.TypeOf(outputWriter), printed with %s, of the writers whose Write
\* can fail: the name of the dynamic type of the writer, os.Stdout (also the
\* default for a nil outputWriter) or a writer type of the caller.
FailingWriterTypes == { "*os.File", "*main.failingWriter" }

\* if outputErr != nil { fmt.Printf("Error writing to the provided output
\* writer %s\n", reflect.TypeOf(outputWriter)) }: what Bootstrap prints to
\* standard output.
WriterFailureNotice(werr, writerType) ==
    IF werr # NilErr
    THEN << <<"Error writing to the provided output writer ", writerType, "\n">> >>
    ELSE << >>

\* Bootstrap after runCommand (or after the failed lookup): write the
\* diagnostic if cmdErr is not nil, and print a notice to standard output
\* if that Write failed.
BootstrapReport ==
    /\ bpc = "report"
    /\ output' = output \o BootstrapDiagnostic(cmdId, cmdErr)
    /\ \E werr \in WriteResults(cmdErr), writerType \in FailingWriterTypes :
          /\ outputErr' = werr
          /\ stdout' = stdout \o WriterFailureNotice(werr, writerType)
    /\ bpc' = "exit"
    /\ UNCHANGED <<registry, argv, cmdId, cmdArgs, cmdErr, panicVal, calls, exits, lockVars, valVars, regVars, parseVars, idVars>>

\* Bootstrap without the `return` after processExit(StatusErr): when
\* processExit returns, the call at the end of the function follows.
ExitCalls_FallsThrough(err) ==
    IF err # NilErr THEN << ExitStatus(err), StatusOk >> ELSE << ExitStatus(err) >>

\* The calls of processExit Bootstrap makes, in order, when processExit
\* returns: processExit(StatusErr) is followed by `return`, and
\* processExit(StatusOk) is the last statement.
ExitCalls(err) == << ExitStatus(err) >>

\* Bootstrap calls processExit and returns.
BootstrapExit ==
    /\ bpc = "exit"
    /\ exits' = exits \o ExitCalls(cmdErr)
    /\ bpc' = "exited"
    /\ UNCHANGED <<registry, argv, cmdId, cmdArgs, cmdErr, panicVal, calls, output, outputErr, stdout, lockVars, valVars, regVars, parseVars, idVars>>

NextRun ==
    \/ BootstrapDispatch
    \/ RunDefineFlags
    \/ RunParse
    \/ RunValidateFlags
    \/ RunExec
    \/ RunReturn
    \/ BootstrapReport
    \/ BootstrapExit

(***************************************************************************)
(* bootstrap.go: a CommandsRegistry used by a caller over several calls    *)
(* (Register, Commands, Command, Bootstrap)                                *)
(***************************************************************************)
UnknownId == <<"u", "n", "k", "n", "o", "w", "n">>

\* A second command under an id (cmd2 of the duplicate-registration test).
OtherCommand(id) == [id |-> id, type |-> "other", availableCommands |-> {}]

\* The nil Command a failed lookup returns.
NoCommand == UserCommand(<<>>)

\* The commands a caller registers; one of them under the reserved id.
RegistrableCommands ==
    { UserCommand(i) : i \in UserIds \cup {HelpId} } \cup { OtherCommand(GreetId) }

\* The ids a caller looks up.
LookupIds == UserIds \cup {HelpId, UnknownId}

\* The argument vectors of a Bootstrap call on a registry in use.
DispatchArgs == { <<>>, <<HelpId>>, <<GreetId>>, <<UnknownId>> }

\* m[id] = cmd on a Go map.
MapPut(m, id, cmd) == [i \in DOMAIN m \cup {id} |-> IF i = id THEN cmd ELSE m[i]]

\* delete(m, id) on a Go map.
MapDelete(m, id) == [i \in DOMAIN m \ {id} |-> m[i]]

\* What a caller does to a map it got from Commands(): delete an entry, or
\* put one (adding it, or replacing the one under that id).
Mutations ==
    { [kind |-> "delete", id |-> i, cmd |-> NoCommand] : i \in {GreetId, HelpId} }
    \cup { [kind |-> "put", id |-> i, cmd |-> OtherCommand(i)] : i \in {GreetId, HelpId} }

ApplyMutation(m, mu) ==
    IF mu.kind = "delete" THEN MapDelete(m, mu.id) ELSE MapPut(m, mu.id, mu.cmd)

\* A map value is a reference: ref 0 is registry.commands itself, ref n > 0
\* is the map made by the n-th Commands() call.  The contents of the map
\* the k-th Commands() call returned:
MapOf(k) == IF returned[k].ref = 0 THEN registry ELSE returned[k].m

\* Commands() that returns registry.commands itself.
CommandsTarget_Registry(fresh) == 0

\* Commands() returns cmdCopy, the map it made.
CommandsTarget(fresh) == fresh

\* The record kept in regLast.
RegCall(op, cmd, id, err, found, got, result, k, before) ==
    [op |-> op, cmd |-> cmd, id |-> id, err |-> err, found |-> found,
     got |-> got, result |-> result, k |-> k, before |-> before]

NoRegCall == RegCall("none", NoCommand, <<>>, NoErr, FALSE, NoCommand, << >>, 0, << >>)

\* The locals of Bootstrap and runCommand.
runLocals ==
    <<argv, bpc, cmdId, cmdArgs, cmdErr, panicVal, calls, output, outputErr, stdout, exits>>

\* The caller has control (no Bootstrap call is in progress) and may make
\* one more call.
CallerRuns == bpc \in {"none", "exited"} /\ ops < MaxOps

\* err := registry.Register(cmd)
RegisterCall(cmd) ==
    /\ CallerRuns
    /\ LET r == Register(registry, cmd)
       IN /\ registry' = r.commands
          /\ registered' = IF r.err = NilErr
                           THEN MapPut(registered, cmd.id, cmd)
                           ELSE registered
          /\ regLast' = RegCall("Register", cmd, cmd.id, r.err, FALSE, NoCommand,
                                << >>, 0, registry)
    /\ ops' = ops + 1
    /\ UNCHANGED <<returned, runLocals, lockVars, valVars, parseVars, idVars>>

\* commands := registry.Commands()
CommandsCall ==
    /\ CallerRuns
    /\ LET k == Len(returned) + 1
       IN /\ returned' = Append(returned, [ref |-> CommandsTarget(k),
                                           m |-> Commands(registry)])
          /\ regLast' = RegCall("Commands", NoCommand, <<>>, NilErr, FALSE, NoCommand,
                                Commands(registry), k, registry)
    /\ ops' = ops + 1
    /\ UNCHANGED <<registry, registered, runLocals, lockVars, valVars, parseVars, idVars>>

\* The caller changes the map the k-th Commands() call returned.
MutateCall(k, mu) ==
    /\ CallerRuns
    /\ k \in 1..Len(returned)
    /\ IF returned[k].ref = 0
       THEN /\ registry' = ApplyMutation(registry, mu)
            /\ returned' = returned
       ELSE /\ registry' = registry
            /\ returned' = [returned EXCEPT ![k].m = ApplyMutation(@, mu)]
    /\ regLast' = RegCall("Mutate", mu.cmd, mu.id, NilErr, FALSE, NoCommand,
                          << >>, k, registry)
    /\ ops' = ops + 1
    /\ UNCHANGED <<registered, runLocals, lockVars, valVars, parseVars, idVars>>

\* cmd, exists := registry.Command(id)
CommandCall(id) ==
    /\ CallerRuns
    /\ LET r == Command(registry, id)
       IN regLast' = RegCall("Command", NoCommand, id, NilErr, r.ok, r.cmd,
                             << >>, 0, registry)
    /\ ops' = ops + 1
    /\ UNCHANGED <<registry, registered, returned, runLocals, lockVars, valVars, parseVars, idVars>>

\* Bootstrap(args, registry, &buf, mockExit): the call is entered with a new
\* output buffer; BootstrapDispatch and the runCommand steps carry it out.
BootstrapCall(args) ==
    /\ CallerRuns
    /\ argv' = args
    /\ bpc' = "idle"
    /\ cmdId' = <<>>
    /\ cmdArgs' = <<>>
    /\ cmdErr' = NilErr
    /\ panicVal' = NoPanic
    /\ calls' = <<>>
    /\ output' = <<>>
    /\ outputErr' = NilErr
    /\ stdout' = <<>>
    /\ exits' = <<>>
    /\ regLast' = RegCall("Bootstrap", NoCommand, <<>>, NilErr, FALSE, NoCommand,
                          << >>, 0, registry)
    /\ ops' = ops + 1
    /\ UNCHANGED <<registry, registered, returned, lockVars, valVars, parseVars, idVars>>

\* A registry some commands were registered in; no call made on it yet.
InitRegistry ==
    /\ registry \in { RegistryOf(ids) : ids \in SUBSET UserIds }
    /\ argv = <<>>
    /\ bpc = "none"
    /\ cmdId = <<>>
    /\ cmdArgs = <<>>
    /\ cmdErr = NilErr
    /\ panicVal = NoPanic
    /\ calls = <<>>
    /\ output = <<>>
    /\ outputErr = NilErr
    /\ stdout = <<>>
    /\ exits = <<>>

InitNoCalls ==
    /\ registered = registry
    /\ returned = <<>>
    /\ regLast = NoRegCall
    /\ ops = 0

NextRegistry ==
    \/ \E cmd \in RegistrableCommands : RegisterCall(cmd)
    \/ CommandsCall
    \/ \E k \in 1..MaxOps, mu \in Mutations : MutateCall(k, mu)
    \/ \E id \in LookupIds : CommandCall(id)
    \/ \E args \in DispatchArgs : BootstrapCall(args)
    \/ BootstrapDispatch
    \/ RunDefineFlags
    \/ RunParse
    \/ RunValidateFlags
    \/ RunExec
    \/ RunReturn
    \/ BootstrapReport
    \/ BootstrapExit

(***************************************************************************)
(* bootstrap.go: parseCmdInput on its own                                  *)
(***************************************************************************)
\* The tokens of an argument vector: the bare separator, a name, a name with
\* surrounding whitespace, a name with other white space around it (a form
\* feed, and the end of a CRLF line), a flag, a token of whitespace only.
Tokens ==
    { Separator, GreetId, <<" ", "g", "r", "e", "e", "t", " ">>,
      <<"\f", "g", "r", "e", "e", "t", "\r", "\n">>, <<"-", "n">>, <<" ">> }

\* All argument vectors of at most MaxArgs tokens.
BoundedArgVectors == UNION { [1..n -> Tokens] : n \in 0..MaxArgs }

NoParseRet == [cmdName |-> <<>>, cmdArgs |-> <<>>]

InitNoParse ==
    /\ pargs = <<>>
    /\ ppc = "idle"
    /\ pret = NoParseRet

InitParse ==
    /\ pargs \in BoundedArgVectors
    /\ ppc = "call"
    /\ pret = NoParseRet

\* cmdName, cmdArgs := parseCmdInput(args)
ParseCall ==
    /\ ppc = "call"
    /\ pret' = parseCmdInput(pargs)
    /\ ppc' = "done"
    /\ UNCHANGED <<pargs, lockVars, runVars, valVars, regVars, idVars>>

NextParse == ParseCall

(***************************************************************************)
(* Flag definitions and required-flag validation (FlagDefinitionMap,       *)
(* validateFlags: the revision exercised by bootstrap_test.go)             *)
(***************************************************************************)
AllFlagNames == <<"name", "message", "enabled", "count">>

FlagNames == { AllFlagNames[k] : k \in 1..MaxFlags }

\* Values a flag can render as: the empty string and a non-empty one.
FlagValueTexts == {"", "value1"}

\* NewFlagDefinition(name, description, required, defaultVal, setupFlag)
FlagDefinition(name, required, defaultVal) ==
    [name |-> name, required |-> required, defaultVal |-> defaultVal]

FlagDefinitionMaps ==
    UNION { [names -> BOOLEAN \X FlagValueTexts] : names \in SUBSET FlagNames }

\* flagSet.Parse on arguments that parse: a supplied flag takes the supplied
\* value, any other flag keeps its default.
ParseFlags(defs, supplied) ==
    [f \in DOMAIN defs |->
        IF f \in DOMAIN supplied THEN supplied[f] ELSE defs[f].defaultVal]

\* The error reported for a required flag without value.
MissingRequired(name) == [kind |-> "required", flag |-> name]

\* validateFlags that stops at the first violation.
validateFlags_FirstOnly(defs, values) ==
    LET missing == { f \in DOMAIN defs : defs[f].required /\ values[f] = "" }
    IN IF missing = {} THEN {} ELSE { MissingRequired(CHOOSE f \in missing : TRUE) }

RECURSIVE validateFlagsOver(_, _, _)
validateFlagsOver(names, defs, values) ==
    IF names = {} THEN {}
    ELSE LET f == CHOOSE n \in names : TRUE
         IN (IF defs[f].required /\ values[f] = ""
             THEN { MissingRequired(f) }
             ELSE {})
            \cup validateFlagsOver(names \ {f}, defs, values)

\* validateFlags(flagSet, cmd): one error for every definition that is
\* required and whose flag renders as the empty string after parsing.
validateFlags(defs, values) == validateFlagsOver(DOMAIN defs, defs, values)

InitNoFlags ==
    /\ flagDefs = << >>
    /\ flagArgs = << >>
    /\ flagValues = << >>
    /\ vpc = "idle"
    /\ violations = {}

InitFlags ==
    /\ \E m \in FlagDefinitionMaps :
          flagDefs = [f \in DOMAIN m |-> FlagDefinition(f, m[f][1], m[f][2])]
    /\ flagArgs \in UNION { [names -> FlagValueTexts] : names \in SUBSET DOMAIN flagDefs }
    /\ flagValues = << >>
    /\ vpc = "setup"
    /\ violations = {}

\* setupFlagSet and flagSet.Parse(args).
FlagsParse ==
    /\ vpc = "setup"
    /\ flagValues' = ParseFlags(flagDefs, flagArgs)
    /\ vpc' = "parsed"
    /\ UNCHANGED <<flagDefs, flagArgs, violations, lockVars, runVars, regVars, parseVars, idVars>>

\* errs := validateFlags(flagSet, cmd)
FlagsValidate ==
    /\ vpc = "parsed"
    /\ violations' = validateFlags(flagDefs, flagValues)
    /\ vpc' = "validated"
    /\ UNCHANGED <<flagDefs, flagArgs, flagValues, lockVars, runVars, regVars, parseVars, idVars>>

NextFlags ==
    \/ FlagsParse
    \/ FlagsValidate

(***************************************************************************)
(* lockable.go: the constructors applied to several argument lists         *)
(***************************************************************************)
\* Directories handed to the constructors.
LockDirs == { LockDir, "var" }

\* Id() of the commands handed to the constructors; the second one has an
\* id that is also used as a lock name.
WrappedIds == { WrappedId, <<"a", ".", "b">> }

\* Lock names handed to NewLockableCommandWithLockName.
CtorLockNames == LockNames \cup { WrappedId, <<"a", "-", "b">> }

\* The argument lists of the two constructors (lockName is empty for the
\* constructor that takes none).
CtorCalls ==
    { [ctor |-> "NewLockableCommand", cmd |-> c, dir |-> d, lockName |-> <<>>] :
          c \in WrappedIds, d \in LockDirs }
    \cup
    { [ctor |-> "NewLockableCommandWithLockName", cmd |-> c, dir |-> d, lockName |-> n] :
          c \in WrappedIds, d \in LockDirs, n \in CtorLockNames }

InitNoCtor ==
    /\ ctorArgs = <<>>
    /\ built = <<>>

InitCtor ==
    /\ ctorArgs \in [1..NumCtorCalls -> CtorCalls]
    /\ built = <<>>

\* The next constructor call is NewLockableCommand(cmd, dir).  (It is made
\* by this process or by another one: the constructors read nothing but
\* their arguments.)
NewLockableCommandCall ==
    /\ Len(built) < Len(ctorArgs)
    /\ LET a == ctorArgs[Len(built) + 1]
       IN /\ a.ctor = "NewLockableCommand"
          /\ built' = Append(built, NewLockableCommand(a.cmd, a.dir))
          /\ lockTable' = FileLockNew(lockTable, NewLockableCommand(a.cmd, a.dir).lockFilePath)
    /\ last' = After(last, Event("New", 0, NoErr, NoLockRet, NoErr, 0, 0, NoExecRet))
    /\ UNCHANGED <<ctorArgs, lockable, pc, acquired, outstanding, execLocked, bodyOutcome, executed,
                   runVars, valVars, regVars, parseVars>>

\* The next constructor call is
\* NewLockableCommandWithLockName(cmd, dir, lockName).
NewLockableCommandWithLockNameCall ==
    /\ Len(built) < Len(ctorArgs)
    /\ LET a == ctorArgs[Len(built) + 1]
       IN /\ a.ctor = "NewLockableCommandWithLockName"
          /\ built' = Append(built, NewLockableCommandWithLockName(a.cmd, a.dir, a.lockName))
          /\ lockTable' = FileLockNew(lockTable,
                                      NewLockableCommandWithLockName(a.cmd, a.dir,
                                                                     a.lockName).lockFilePath)
    /\ last' = After(last, Event("New", 0, NoErr, NoLockRet, NoErr, 0, 0, NoExecRet))
    /\ UNCHANGED <<ctorArgs, lockable, pc, acquired, outstanding, execLocked, bodyOutcome, executed,
                   runVars, valVars, regVars, parseVars>>

NextCtor ==
    \/ NewLockableCommandCall
    \/ NewLockableCommandWithLockNameCall

\* Constructor calls made while the instances that exist already are in
\* use.
InitCtorLock ==
    /\ ctorArgs \in [1..NumCtorLockCalls -> CtorCalls]
    /\ built = <<>>

\* The constructor calls, and Lock() and Unlock() on the instances that
\* exist already, in any order.
NextCtorLock ==
    \/ NewLockableCommandCall
    \/ NewLockableCommandWithLockNameCall
    \/ \E i \in Instances : LockCall(i)
    \/ \E i \in Instances : UnlockCall(i)

(***************************************************************************)
(* A registered FsLockableCommand dispatched by Bootstrap, while other     *)
(* processes use instances of their own                                    *)
(***************************************************************************)
\* The instance registered with the registry; the other instances belong to
\* other processes.
RegisteredInstance == 1

\* The FsLockableCommand as a Command: Id() is that of the wrapped command.
LockableCommand(l) == [id |-> l.Command, type |-> "lockable", availableCommands |-> {}]

\* Error() of the errors Exec of an FsLockableCommand returns.
RECURSIVE ErrorText(_)
ErrorText(e) ==
    CASE e = CommandLocked -> <<"command is locked, skipping execution">>
      [] e = ErrBody -> ErrExec.text
      [] e = ErrInfra -> <<"permission denied">>
      [] e.kind = "lockFailed" ->
            <<"failed to acquire lock for command ">> \o e.id \o <<": ">> \o ErrorText(e.cause)
      [] OTHER -> <<>>

\* The error Exec returned as runCommand holds it: the error of the wrapped
\* command is the very value the command returned.
AsError(e) ==
    IF e = NilErr THEN NilErr
    ELSE IF e = ErrBody THEN ErrExec
    ELSE Err(e.kind, ErrorText(e))

\* Argument vectors that dispatch the lockable command, with and without a
\* flag, or no command.
LockedArgVectors ==
    { <<WrappedId>>, <<WrappedId, <<"-", "x">>>>, <<UnknownId>> }

\* registry.Register(cli.NewLockableCommand(...)) before Bootstrap; in one
\* of the registries the caller has registered a command of its own under
\* the id "help" as well.
InitLockedRun ==
    /\ registry \in { Register(RegistryOf(ids),
                                LockableCommand(lockable[RegisteredInstance])).commands :
                           ids \in { {}, {HelpId} } }
    /\ argv \in LockedArgVectors
    /\ bpc = "idle"
    /\ cmdId = <<>>
    /\ cmdArgs = <<>>
    /\ cmdErr = NilErr
    /\ panicVal = NoPanic
    /\ calls = <<>>
    /\ output = <<>>
    /\ outputErr = NilErr
    /\ stdout = <<>>
    /\ exits = <<>>

\* runCommand: cmd.Exec(outputWriter) on the lockable command, first part:
\* l.Lock(), then `return err`, `return CommandLocked` or the call of the
\* wrapped command.
RunExecLock ==
    /\ bpc = "exec"
    /\ DispatchedCommand.type = "lockable"
    /\ FileLockLockReturns(lockTable, PathOf(RegisteredInstance))
    /\ \E fault \in BOOLEAN :
        LET i      == RegisteredInstance
            fl     == FileLockLock(lockTable, PathOf(i), i, fault)
            ret    == Lock(lockable[i].Command, fl.err)
            branch == ExecBranch(ret)
        IN /\ lockTable' = fl.tbl
           /\ acquired' = [acquired EXCEPT ![i] = @ \/ ret.locked]
           /\ IF branch = "run"
              THEN /\ FreeActivations(i) # {}
                   /\ pc' = [pc EXCEPT ![i][NextActivation(i)] = "running"]
                   /\ execLocked' = [execLocked EXCEPT ![i][NextActivation(i)] = ret.locked]
                   /\ executed' = [executed EXCEPT ![i] = TRUE]
                   /\ last' = After(last, Event("ExecBody", i, fl.err, ret, NoErr, 1, 0, NoExecRet))
                   /\ bpc' = "body"
                   /\ UNCHANGED <<calls, cmdErr>>
              ELSE /\ last' = After(last, Event("Exec", i, fl.err, ret, NoErr, 0, 0,
                                    [kind |-> "return", err |-> ExecEarlyReturn(branch, ret)]))
                   /\ calls' = Append(calls, Call("Exec", IF branch = "skip" THEN "locked"
                                                                             ELSE "lockFailed"))
                   /\ cmdErr' = runCommandError(cmdId, AsError(ExecEarlyReturn(branch, ret)))
                   /\ bpc' = "return"
                   /\ UNCHANGED <<pc, execLocked, executed>>
    /\ UNCHANGED <<lockable, outstanding, bodyOutcome, registry, argv, cmdId, cmdArgs, panicVal, output, outputErr, stdout, exits, valVars, regVars, parseVars, idVars>>

\* Exec of the lockable command, second part: the wrapped command's Exec
\* returns or panics.
RunExecBody ==
    /\ bpc = "body"
    /\ \E a \in Activations, o \in BodyOutcomes, payload \in {PanicWithError, PanicWithString} :
          /\ pc[RegisteredInstance][a] = "running"
          /\ pc' = [pc EXCEPT ![RegisteredInstance][a] = "deferred"]
          /\ bodyOutcome' = [bodyOutcome EXCEPT ![RegisteredInstance][a] = o]
          /\ panicVal' = IF o = "panic" THEN payload ELSE NoPanic
          /\ output' = IF o = "nil"
                       THEN Append(output, ExecOutput(DispatchedCommand))
                       ELSE output
    /\ bpc' = "unlock"
    /\ UNCHANGED <<lockTable, lockable, acquired, outstanding, execLocked, executed, last, registry, argv, cmdId, cmdArgs, cmdErr, calls, outputErr, stdout, exits, valVars, regVars, parseVars, idVars>>

\* Exec of the lockable command, last part: the deferred `_ = l.Unlock()`
\* runs, then Exec returns the result of the wrapped command to runCommand
\* or lets its panic through.
RunExecDeferred ==
    /\ bpc = "unlock"
    /\ \E a \in Activations, fault \in BOOLEAN :
        LET i   == RegisteredInstance
            n   == ExecDeferredUnlocks(bodyOutcome[i][a])
            fl  == FileLockUnlock(lockTable, PathOf(i), i, fault)
            res == ExecResult(bodyOutcome[i][a])
        IN /\ pc[i][a] = "deferred"
           /\ pc' = [pc EXCEPT ![i][a] = "idle"]
           /\ execLocked' = [execLocked EXCEPT ![i][a] = FALSE]
           /\ bodyOutcome' = [bodyOutcome EXCEPT ![i][a] = "none"]
           /\ IF n > 0
              THEN /\ lockTable' = fl.tbl
                   /\ acquired' = [acquired EXCEPT ![i] = @ /\ fl.err # NilErr]
                   /\ outstanding' = [outstanding EXCEPT ![i] = @ /\ fl.err # NilErr]
                   /\ last' = After(last, Event("Exec", i, NoErr, [locked |-> execLocked[i][a], err |-> NilErr],
                                    Unlock(fl.err), 1, n, res))
              ELSE /\ UNCHANGED <<lockTable, acquired, outstanding>>
                   /\ last' = After(last, Event("Exec", i, NoErr, [locked |-> execLocked[i][a], err |-> NilErr],
                                    NoErr, 1, n, res))
           /\ calls' = Append(calls, Call("Exec",
                              IF res.kind = "panic"
                              THEN (IF panicVal.type = "error" THEN "panicError" ELSE "panicString")
                              ELSE IF res.err = NilErr THEN "nil" ELSE "error"))
           /\ cmdErr' = IF res.kind = "return" /\ res.err # NilErr
                        THEN runCommandError(cmdId, AsError(res.err))
                        ELSE NilErr
    /\ bpc' = "return"
    /\ UNCHANGED <<lockable, executed, registry, argv, cmdId, cmdArgs, panicVal, output, outputErr, stdout, exits, valVars, regVars, parseVars, idVars>>

\* The instances through which other processes take and release the lock.
OtherInstances == Instances \ {RegisteredInstance}

NextLockedRun ==
    \/ BootstrapDispatch
    \/ RunDefineFlags
    \/ RunParse
    \/ RunValidateFlags
    \/ RunExecLock
    \/ RunExecBody
    \/ RunExecDeferred
    \/ RunReturn
    \/ BootstrapReport
    \/ BootstrapExit
    \/ \E i \in OtherInstances : LockCall(i)
    \/ \E i \in OtherInstances : UnlockCall(i)

NextLock ==
    \E i \in Instances :
        \/ LockCall(i)
        \/ UnlockCall(i)
        \/ ExecLock(i)
        \/ ExecBodyEnds(i)
        \/ ExecDeferred(i)

\* The lock instances of a run that makes no use of them.
InitNoLock ==
    /\ InitLock
    /\ \A i \in Instances :
          lockable[i] = NewLockableCommandWithLockName(WrappedId, LockDir, <<"a", ".", "b">>)

\* Several FsLockableCommand instances used concurrently; no dispatch.
InitSpecLock == InitLock /\ InitIdle /\ InitNoCalls /\ InitNoFlags /\ InitNoParse /\ InitNoCtor

SpecLock == InitSpecLock /\ [][NextLock]_vars

\* Several FsLockableCommand instances used through Exec alone: no caller
\* and no wrapped body calls Lock() or Unlock() itself.
NextExec ==
    \E i \in Instances :
        \/ ExecLock(i)
        \/ ExecBodyEnds(i)
        \/ ExecDeferred(i)

InitSpecExec == InitLock /\ InitIdle /\ InitNoCalls /\ InitNoFlags /\ InitNoParse /\ InitNoCtor

SpecExec == InitSpecExec /\ [][NextExec]_vars

\* One Bootstrap dispatch; the lock instances stay unused.
InitSpecRun == InitLock /\ InitRun /\ InitNoCalls /\ InitNoFlags /\ InitNoParse /\ InitNoCtor

SpecRun == InitSpecRun /\ [][NextRun]_vars

\* Required-flag validation of one flag set and one argument vector.
InitSpecFlags == InitLock /\ InitIdle /\ InitNoCalls /\ InitFlags /\ InitNoParse /\ InitNoCtor

SpecFlags == InitSpecFlags /\ [][NextFlags]_vars

\* One registry and its caller: up to MaxOps calls, Bootstrap among them.
InitSpecRegistry ==
    InitNoLock /\ InitRegistry /\ InitNoCalls /\ InitNoFlags /\ InitNoParse /\ InitNoCtor

SpecRegistry == InitSpecRegistry /\ [][NextRegistry]_vars

\* parseCmdInput applied to one argument vector.
InitSpecParse == InitNoLock /\ InitIdle /\ InitNoCalls /\ InitNoFlags /\ InitParse /\ InitNoCtor

SpecParse == InitSpecParse /\ [][NextParse]_vars

\* One Bootstrap dispatch on a registry that holds an FsLockableCommand.
InitSpecLockedRun ==
    InitLock /\ InitLockedRun /\ InitNoCalls /\ InitNoFlags /\ InitNoParse /\ InitNoCtor

SpecLockedRun == InitSpecLockedRun /\ [][NextLockedRun]_vars

\* The constructors of FsLockableCommand applied to NumCtorCalls argument
\* lists.
InitSpecCtor ==
    InitNoLock /\ InitIdle /\ InitNoCalls /\ InitNoFlags /\ InitNoParse /\ InitCtor

SpecCtor == InitSpecCtor /\ [][NextCtor]_vars

\* Constructor calls among Lock() and Unlock() calls on one lock file.
InitSpecCtorLock ==
    InitNoLock /\ InitIdle /\ InitNoCalls /\ InitNoFlags /\ InitNoParse /\ InitCtorLock

SpecCtorLock == InitSpecCtorLock /\ [][NextCtorLock]_vars

(***************************************************************************)
(* Properties of the exclusive-execution lock (checked under SpecLock)     *)
(***************************************************************************)
SamePath(i, j) == PathOf(i) = PathOf(j)

\* Instances that were told "acquired" for the lock file p and have not
\* released it.
Holders(p) == { i \in Instances : PathOf(i) = p /\ acquired[i] }

\* An Exec of instance i is in progress (past its Lock, before its return).
InExec(i) == \E a \in Activations : pc[i][a] # "idle"

\* An Exec of instance i is executing the wrapped command body.
InBody(i) == \E a \in Activations : pc[i][a] = "running"

\* The Exec calls whose wrapped command body is executing under the lock
\* file p.
Running(p) ==
    { x \in Instances \X Activations : PathOf(x[1]) = p /\ pc[x[1]][x[2]] = "running" }

LockedRet == [locked |-> TRUE, err |-> NilErr]

HeldRet == [locked |-> FALSE, err |-> NilErr]

ReturnOf(err) == [kind |-> "return", err |-> err]

MutexState ==
    \A p \in Paths : Cardinality(Holders(p)) <= 1 /\ Cardinality(Running(p)) <= 1

RaceStep ==
    \A i \in Instances :
        last'.flErr # ErrInfra /\ (LockCall(i) \/ ExecLock(i))
            => last'.lockRet = [locked |-> Holders(PathOf(i)) = {}, err |-> NilErr]

\* C1: mutual exclusion.  Among the instances of one lock file, at most one
\* holds the lock and at most one wrapped body is executing, in every
\* reachable state; and every Lock() (direct or inside Exec) on which the
\* file system does not fail returns (true, nil) when no instance holds the
\* lock and (false, nil) otherwise, so instances racing for a free lock have
\* exactly one winner and the others see "held" without an error.
C1_MutualExclusion == [] MutexState /\ [][RaceStep]_vars

\* C1 witness: an instance holds the lock and another instance of the same
\* lock file has just lost the race with (false, nil).
C1_Witness ==
    /\ last.op \in {"Lock", "Exec"}
    /\ last.flErr = ErrLockHeld
    /\ last.lockRet = HeldRet
    /\ \E i \in Instances :
          i # last.inst /\ SamePath(i, last.inst) /\ acquired[i]

C2_Step ==
    \A a, b \in Instances :
        (a # b /\ SamePath(a, b)) =>
            /\ (acquired[a] /\ last'.flErr # ErrInfra /\ LockCall(b))
                   => (last'.lockRet = HeldRet /\ acquired'[a] /\ ~acquired'[b])
            /\ (acquired[a] /\ last'.unlockRet = NilErr /\ UnlockCall(a))
                   => Holders(PathOf(a))' = {}
            /\ (/\ last.op = "Unlock" /\ last.inst = a /\ last.unlockRet = NilErr
                /\ \A c \in Instances \ {a} : SamePath(c, a) => ~acquired[c]
                /\ last'.flErr # ErrInfra
                /\ LockCall(b))
                   => (last'.lockRet = LockedRet /\ acquired'[b])

\* C2: for two instances A and B of one lock file, every B.Lock() made while
\* A holds the lock returns (false, nil) and leaves A the holder; a
\* successful A.Unlock() leaves the lock without holder; and the B.Lock()
\* that follows A.Unlock() returns (true, nil).  (Calls on which the file
\* system fails are the third outcome of Lock(), see C3.)
C2_LockHandover == [][C2_Step]_vars

\* C2 witness: B acquired the lock with the call that directly followed
\* the Unlock() of another instance A of the same lock file.
C2_Witness ==
    /\ last.op = "Lock" /\ last.lockRet = LockedRet
    /\ last.prevOp = "Unlock"
    /\ last.prevInst \in Instances \ {last.inst}
    /\ SamePath(last.inst, last.prevInst)
    /\ acquired[last.inst] /\ ~acquired[last.prevInst]

\* C3: Lock() has exactly three outcomes, decided by the error of the
\* underlying file lock: (true, nil) iff the file lock was acquired (and the
\* instance then owns the lock file), (false, nil) iff the file lock reports
\* ErrLockHeld, (false, err) with err non-nil iff it fails in any other way;
\* never (true, err).
C3_LockClassification ==
    last.flErr # NoErr =>
        LET fe == last.flErr
            r  == last.lockRet
        IN /\ (r = LockedRet) <=> (fe = NilErr)
           /\ (r = HeldRet) <=> (fe = ErrLockHeld)
           /\ (~r.locked /\ r.err # NilErr) <=> (fe \notin {NilErr, ErrLockHeld})
           /\ ~(r.locked /\ r.err # NilErr)
           /\ r.locked => lockTable[PathOf(last.inst)] = last.inst

\* C3 witness: a Lock() whose file lock failed for an infrastructure reason
\* returned (false, non-nil error).
C3_Witness ==
    /\ last.op = "Lock"
    /\ last.flErr = ErrInfra
    /\ ~last.lockRet.locked
    /\ last.lockRet.err \notin {NilErr, NoErr}

C4_Step ==
    \A i \in Instances :
        (/\ \E j \in Instances \ {i} : SamePath(i, j) /\ acquired[j]
         /\ last'.flErr # ErrInfra
         /\ ExecLock(i))
            => /\ last'.op = "Exec" /\ last'.inst = i
               /\ last'.ret = ReturnOf(CommandLocked)
               /\ last'.bodyRuns = 0
               /\ last'.unlocks = 0
               /\ executed' = executed
               /\ pc' = pc
               /\ lockTable' = lockTable
               /\ acquired' = acquired

\* C4: an Exec that finds the lock held by another instance returns
\* CommandLocked in that very step, does not call the wrapped command (its
\* executed flag is unchanged), calls Unlock zero times, and leaves the lock
\* file and its holder as they were.
C4_LockedSkipsBody == [][C4_Step]_vars

\* C4 witness: an Exec returned CommandLocked while another instance holds
\* the lock, and the loser's wrapped command was never executed.
C4_Witness ==
    /\ last.op = "Exec"
    /\ last.ret = ReturnOf(CommandLocked)
    /\ ~executed[last.inst]
    /\ \E j \in Instances \ {last.inst} :
          SamePath(j, last.inst) /\ acquired[j] /\ lockTable[PathOf(j)] = j

\* C5: an Exec that acquired the lock has called Unlock() exactly once by
\* the time it finishes, whether the wrapped body returned nil, returned an
\* error or panicked.
C5_UnlockExactlyOnce ==
    (last.op = "Exec" /\ last.lockRet.locked) =>
        (last.unlocks = 1 /\ last.ret.kind \in {"return", "panic"})

\* C5 witness: an Exec that had acquired the lock ended by a panic of the
\* wrapped body and has called Unlock() once.
C5_Witness ==
    /\ last.op = "Exec"
    /\ last.lockRet.locked
    /\ last.ret.kind = "panic"
    /\ last.unlocks = 1

C6_State ==
    \A i, j \in Instances :
        (i # j /\ SamePath(i, j)) => ~(InExec(i) /\ InExec(j))

C6_Step ==
    \A i, j \in Instances :
        (i # j /\ SamePath(i, j)) =>
            /\ (InExec(i) /\ last'.flErr # ErrInfra /\ ExecLock(j))
                   => /\ last'.op = "Exec" /\ last'.inst = j
                      /\ last'.ret = ReturnOf(CommandLocked)
                      /\ last'.bodyRuns = 0
                      /\ ~InExec(j)'
                      /\ pc'[i] = pc[i]
            /\ ExecDeferred(i)
                   => /\ last'.bodyRuns = 1
                      /\ (\A a \in Activations :
                             pc[i][a] = "deferred" => bodyOutcome[i][a] = "nil")
                            => last'.ret = ReturnOf(NilErr)

\* C6: of two Exec calls on two instances of one lock file that overlap (the
\* second is invoked while the first is between its Lock and its Unlock),
\* the first runs the wrapped body exactly once and returns the body's
\* result (nil for a successful body), the second returns CommandLocked
\* without running the body; the two are never both past their Lock.
C6_ConcurrentExec == [] C6_State /\ [][C6_Step]_vars

\* C6 witness: an Exec has just returned CommandLocked while the Exec of
\* another instance of the same lock file is executing the wrapped body.
C6_Witness ==
    /\ last.op = "Exec"
    /\ last.ret = ReturnOf(CommandLocked)
    /\ last.bodyRuns = 0
    /\ \E i \in Instances \ {last.inst} :
          SamePath(i, last.inst) /\ InBody(i)

\* The lock file of instance i is held through another instance.
HeldByOther(i) == lockTable[PathOf(i)] \notin {0, i}

C23_Step ==
    \A i \in Instances :
        (~acquired[i] /\ UnlockCall(i))
            => /\ last'.op = "Unlock" /\ last'.inst = i
               /\ last'.unlockRet = NilErr
               /\ lockTable' = lockTable
               /\ acquired' = acquired
               /\ pc' = pc

\* C23: an Unlock() on an instance that holds nothing (it never acquired the
\* lock, or it has released it) returns nil and changes nothing: a free lock
\* stays free, a lock held through another instance stays held.
C23_UnlockWithoutLockIsSafe == [][C23_Step]_vars

\* C23 witness: an instance that does not hold the lock has called Unlock()
\* a second time in a row while another instance holds the lock; nil was
\* returned and the holder still holds.
C23_Witness ==
    /\ last.op = "Unlock" /\ last.prevOp = "Unlock" /\ last.prevInst = last.inst
    /\ last.unlockRet = NilErr
    /\ ~acquired[last.inst]
    /\ HeldByOther(last.inst)
    /\ \E j \in Instances \ {last.inst} : acquired[j] /\ SamePath(j, last.inst)

C26_State ==
    \A i \in Instances :
        HeldByOther(i)
            => (ENABLED LockCall(i)) /\ (ENABLED ExecLock(i))

C26_Step ==
    \A i \in Instances :
        (HeldByOther(i) /\ last'.flErr # ErrInfra) =>
            /\ LockCall(i)
                   => /\ last'.op = "Lock" /\ last'.inst = i
                      /\ last'.lockRet = HeldRet
                      /\ pc'[i] = pc[i]
                      /\ lockTable' = lockTable
            /\ ExecLock(i)
                   => /\ last'.op = "Exec" /\ last'.inst = i
                      /\ last'.ret = ReturnOf(CommandLocked)
                      /\ pc'[i] = pc[i]
                      /\ lockTable' = lockTable

\* C26: while another holder has the lock, a Lock() and an Exec can always
\* be called and return in the step that calls them, whatever the holder
\* does or does not do: Lock() with (false, nil), Exec with CommandLocked,
\* the caller where it was before the call and the lock file untouched.
C26_TryLockNeverWaits == [] C26_State /\ [][C26_Step]_vars

\* C26 witness: a Lock() returned (false, nil) while the holder is still
\* executing its wrapped body.
C26_Witness ==
    /\ last.op = "Lock"
    /\ last.lockRet = HeldRet
    /\ ~InExec(last.inst)
    /\ \E j \in Instances \ {last.inst} :
          SamePath(j, last.inst) /\ InBody(j) /\ lockTable[PathOf(j)] = j

C29_Step ==
    \A i \in Instances :
        (last'.flErr = ErrInfra /\ ExecLock(i))
            => /\ last'.op = "Exec" /\ last'.inst = i
               /\ last'.ret.kind = "return"
               /\ last'.ret.err \notin {NilErr, NoErr, CommandLocked}
               /\ last'.ret.err.cause = ErrInfra
               /\ last'.ret.err.id = lockable[i].Command
               /\ last'.bodyRuns = 0
               /\ last'.unlocks = 0
               /\ executed' = executed
               /\ pc' = pc
               /\ lockTable' = lockTable

\* C29: an Exec whose Lock() fails for an infrastructure reason returns a
\* non-nil error that wraps the cause and names the command's Id, not
\* CommandLocked; the wrapped command is not called, Unlock is not called,
\* and the lock file is left as it was.
C29_LockFailureInExec == [][C29_Step]_vars

\* C29 witness: an Exec returned the wrapped infrastructure error and the
\* wrapped command of that instance was never executed.
C29_Witness ==
    /\ last.op = "Exec"
    /\ last.flErr = ErrInfra
    /\ last.ret = ReturnOf(LockFailed(WrappedId, ErrInfra))
    /\ last.bodyRuns = 0 /\ last.unlocks = 0
    /\ ~executed[last.inst]

\* No Exec is in progress and no direct Lock() is outstanding on the lock
\* file p.
Quiet(p) ==
    \A i \in Instances : PathOf(i) = p => (~InExec(i) /\ ~outstanding[i])

C30_State == \A p \in Paths : Quiet(p) => lockTable[p] = 0

C30_Step ==
    \A i \in Instances :
        /\ ExecDeferred(i)
               => /\ last'.op = "Exec" /\ last'.inst = i
                  /\ lockTable'[PathOf(i)] # i
                  /\ \E a \in Activations : pc[i][a] = "deferred" /\ pc'[i][a] = "idle"
        /\ (Quiet(PathOf(i)) /\ last'.flErr # ErrInfra /\ LockCall(i))
               => /\ last'.lockRet = LockedRet
                  /\ lockTable'[PathOf(i)] = i
        /\ (Quiet(PathOf(i)) /\ last'.flErr # ErrInfra /\ ExecLock(i))
               => /\ last'.op = "ExecBody" /\ last'.bodyRuns = 1
                  /\ lockTable'[PathOf(i)] = i

\* C30: when Exec returns after a body that returned nil, returned an error
\* or panicked, the instance no longer holds the lock; whenever no Exec is
\* in progress and no direct Lock() is outstanding on a lock file, the lock
\* is free, and the next Lock() or Exec on which the file system does not
\* fail acquires it.
C30_ReleasedAfterExec == [] C30_State /\ [][C30_Step]_vars

C31_Step ==
    \A i \in Instances :
        /\ (HeldByOther(i) /\ UnlockCall(i))
               => /\ lockTable' = lockTable
                  /\ acquired' = acquired
                  /\ \E j \in Instances \ {i} :
                        SamePath(i, j) /\ acquired'[j] /\ lockTable'[PathOf(j)] = j
        /\ (/\ last.op = "Unlock" /\ HeldByOther(last.inst)
            /\ SamePath(i, last.inst) /\ lockTable[PathOf(i)] # i
            /\ last'.flErr # ErrInfra
            /\ LockCall(i))
               => /\ last'.lockRet = HeldRet
                  /\ ~acquired'[i]
                  /\ lockTable' = lockTable

\* C31: an Unlock() on an instance that does not hold the lock, made while
\* another instance of the same lock file holds it, leaves the lock with
\* its holder; the Lock() of a non-holder that follows it returns
\* (false, nil).
C31_ForeignUnlockKeepsHolder == [][C31_Step]_vars

\* C31 witness: a Lock() returned (false, nil) directly after the Unlock()
\* of an instance that did not hold the lock, and the holder still holds.
C31_Witness ==
    /\ last.op = "Lock" /\ last.lockRet = HeldRet
    /\ last.prevOp = "Unlock"
    /\ ~acquired[last.prevInst]
    /\ HeldByOther(last.prevInst)
    /\ HeldByOther(last.inst)
    /\ SamePath(last.inst, last.prevInst)

(***************************************************************************)
(* Properties of the execution pipeline (checked under SpecRun)            *)
(***************************************************************************)
Range(f) == { f[k] : k \in DOMAIN f }

\* runCommand has returned to Bootstrap (the lookup did not fail).
RunCommandReturned == bpc \in {"report", "exit", "exited"} /\ calls # <<>>

\* The text of the failure a call of `calls` ended with.
CauseText(call) ==
    CASE call.name = "Parse" /\ call.outcome = "error"         -> ErrParse.text
      [] call.name = "ValidateFlags" /\ call.outcome = "error" -> ErrValidate.text
      [] call.name = "Exec" /\ call.outcome = "error"          -> ErrExec.text
      [] call.outcome = "panicError"                           -> PanicWithError.text
      [] call.outcome = "panicString"                          -> PanicWithString.text
      [] OTHER                                                 -> <<>>

\* C7 (as claimed): whenever runCommand ends while a panic raised by
\* DefineFlags, ValidateFlags or Exec is in flight, whatever its payload,
\* the panic is recovered: runCommand returns to Bootstrap a non-nil error
\* whose text contains the panic's message, and nothing propagates.
C7_EveryPanicRecovered ==
    [][(bpc = "return" /\ panicVal # NoPanic)
          => /\ bpc' = "report"
             /\ panicVal' = NoPanic
             /\ cmdErr' # NilErr
             /\ Contains(cmdErr'.text, panicVal.text)]_vars

\* A call of flagSet.Parse made during runCommand returned nil: the call of
\* runCommand, or the one DefineFlags made itself.
ParsingSucceeded(c) == c = Call("Parse", "ok") \/ c = Call("DefineFlags", "parsed")

\* A call of flagSet.Parse made during runCommand returned an error.
ParsingFailed(c) == c = Call("Parse", "error") \/ c = Call("DefineFlags", "parsedError")

\* DefineFlags called flagSet.Parse itself.
ParsedByDefineFlags(cs) ==
    \E k \in DOMAIN cs :
        cs[k] \in {Call("DefineFlags", "parsed"), Call("DefineFlags", "parsedError")}

\* C8 (as claimed): Exec is called only after the flags were parsed and
\* validated with success; once flag parsing or ValidateFlags returned an
\* error, Exec is not called and the error runCommand returns is not nil.
C8_NoExecAfterFailure ==
    /\ \A k \in DOMAIN calls :
          calls[k].name = "Exec" =>
              /\ \E j \in 1..(k - 1) : ParsingSucceeded(calls[j])
              /\ \E j \in 1..(k - 1) : calls[j] = Call("ValidateFlags", "nil")
    /\ (\E j \in DOMAIN calls :
            ParsingFailed(calls[j]) \/ calls[j] = Call("ValidateFlags", "error"))
          => /\ \A k \in DOMAIN calls : calls[k].name # "Exec"
             /\ RunCommandReturned => cmdErr # NilErr

\* C8 (amended): once the flagSet.Parse(args) of runCommand or ValidateFlags
\* returned an error, Exec is not called and the error runCommand returns is
\* not nil; Exec is called only after ValidateFlags returned nil and after
\* the flag set was parsed, either by runCommand with success or by
\* DefineFlags itself, in which case runCommand does not parse and does not
\* see the result.
C8_NoExecAfterPipelineFailure ==
    /\ \A k \in DOMAIN calls :
          calls[k].name = "Exec" =>
              /\ \/ \E j \in 1..(k - 1) : calls[j] = Call("Parse", "ok")
                 \/ /\ ParsedByDefineFlags(SubSeq(calls, 1, k - 1))
                    /\ \A j \in 1..(k - 1) : calls[j].name # "Parse"
              /\ \E j \in 1..(k - 1) : calls[j] = Call("ValidateFlags", "nil")
    /\ (\E j \in DOMAIN calls :
            calls[j].name \in {"Parse", "ValidateFlags"} /\ calls[j].outcome = "error")
          => /\ \A k \in DOMAIN calls : calls[k].name # "Exec"
             /\ RunCommandReturned => cmdErr # NilErr
    /\ \A k \in DOMAIN calls : calls[k].name = "Parse" => ~ParsedByDefineFlags(calls)

\* C8 witness: DefineFlags parsed the flag set itself and that parse failed;
\* runCommand did not parse, ValidateFlags returned nil, Exec was called and
\* runCommand returned nil.
C8_Witness ==
    /\ RunCommandReturned
    /\ calls = << Call("DefineFlags", "parsedError"), Call("ValidateFlags", "nil"),
                  Call("Exec", "nil") >>
    /\ cmdErr = NilErr

\* C9: every non-nil error runCommand returns contains
\* "Failed to execute command", the command's Id and the underlying cause.
C9_RunCommandWraps ==
    (RunCommandReturned /\ bpc = "report" /\ cmdErr # NilErr)
        => /\ Contains(cmdErr.text, FailedPrefix)
           /\ Contains(cmdErr.text, cmdId)
           /\ Contains(cmdErr.text, CauseText(calls[Len(calls)]))

(***************************************************************************)
(* Properties of the commands registry (checked under SpecRegistry)        *)
(***************************************************************************)
\* What C11 asks of one Register(cmd) call.
C11_Step(cmd) ==
    RegisterCall(cmd) =>
        IF cmd.id \in DOMAIN registry
        THEN /\ regLast'.err # NilErr
             /\ Contains(regLast'.err.text, <<"already registered">>)
             /\ registry' = registry
             /\ registry'[cmd.id] = registered[cmd.id]
        ELSE /\ regLast'.err = NilErr
             /\ DOMAIN registry' = DOMAIN registry \cup {cmd.id}
             /\ registry'[cmd.id] = cmd
             /\ \A i \in DOMAIN registry : registry'[i] = registry[i]

\* C11: Register(cmd) with an Id already in the registry returns an error
\* saying "already registered" and leaves the registry as it was, the entry
\* under that Id still being the first command registered; Register with a
\* new Id returns nil and adds exactly that one entry.
C11_RegisterRejectsDuplicates ==
    [][\A cmd \in RegistrableCommands : C11_Step(cmd)]_vars

\* C11 witness: a second command was registered under the Id of greet; the
\* call failed and the registry still holds the first one.
C11_Witness ==
    /\ regLast.op = "Register"
    /\ regLast.cmd = OtherCommand(GreetId)
    /\ regLast.err = AlreadyRegistered(GreetId)
    /\ registry = regLast.before
    /\ registry[GreetId] = UserCommand(GreetId)

\* What C12 asks of one step of the caller.
C12_Step ==
    /\ CommandsCall =>
           /\ regLast'.result = registry
           /\ MapOf(Len(returned))' = registry
    /\ \A k \in 1..Len(returned), mu \in Mutations :
           MutateCall(k, mu) =>
               /\ \A id \in LookupIds : Command(registry', id) = Command(registry, id)
               /\ Commands(registry') = Commands(registry)
               /\ \A j \in 1..Len(returned) : j # k => MapOf(j)' = MapOf(j)

\* C12: Commands() returns a mapping equal to the registry's mapping, and
\* adding, deleting or replacing entries of a returned mapping changes
\* neither what Command(id) returns afterwards, nor what Commands() returns
\* afterwards, nor a mapping returned to another caller.
C12_CommandsReturnsCopy == [][C12_Step]_vars

\* C12 witness: two callers hold a mapping; one of them changed theirs, the
\* other mapping and the registry still agree.
C12_Witness ==
    /\ regLast.op = "Mutate"
    /\ registry # << >>
    /\ MapOf(regLast.k) # registry
    /\ \E j \in 1..Len(returned) : j # regLast.k /\ MapOf(j) = registry

\* What C13 asks of one Command(id) call.
C13_Step(id) ==
    CommandCall(id) =>
        /\ regLast'.found <=> id \in DOMAIN registered
        /\ regLast'.found => regLast'.got = registered[id]
        /\ regLast'.err = NilErr
        /\ registry' = registry

\* C13: Command(id) returns (cmd, true) exactly when an earlier Register of
\* a command with that Id succeeded, cmd being that command, and found =
\* false otherwise; an absent id is no error and no lookup changes the
\* registry.
C13_LookupFindsRegistered == [][\A id \in LookupIds : C13_Step(id)]_vars

\* C13 witness: a command registered by this caller is looked up and found,
\* after a lookup of an id that was never registered would have failed.
C13_Witness ==
    /\ regLast.op = "Command"
    /\ regLast.found
    /\ regLast.id \in DOMAIN registered
    /\ regLast.got = registered[regLast.id]
    /\ regLast.got = OtherCommand(GreetId)
    /\ ~Command(registry, UnknownId).ok

\* A Bootstrap call is between the registration of the help command and
\* processExit.
DuringDispatch ==
    bpc \in {"define", "parse", "validate", "exec", "return", "report", "exit"}

\* The commands of the registry other than the one under the reserved Id.
OtherCommands == { registry[i] : i \in DOMAIN registry \ {HelpId} }

\* C14 (as claimed): during every dispatch, the first on a registry or a
\* later one, the list the built-in help command holds is the set of the
\* other commands registered at that moment.
C14_HelpListsCurrentCommands ==
    (DuringDispatch /\ HelpId \in DOMAIN registry /\ registry[HelpId].type = "help")
        => registry[HelpId].availableCommands = OtherCommands

\* C15 (as claimed): the command a dispatch resolves for the name "help"
\* or for an empty name is the built-in help command, whatever was
\* registered before.
C15_HelpIsBuiltIn ==
    (DuringDispatch /\ cmdId = HelpId /\ cmdErr = NilErr)
        => DispatchedCommand.type = "help"

\* The Bootstrap call in progress, or the one that ended last with the
\* caller having done nothing since, is past the lookup of the command.
Dispatched == regLast.op = "Bootstrap" /\ bpc \notin {"none", "idle"}

\* C17: Bootstrap with a name that is not in the registry (the help command
\* included) runs no DefineFlags, ValidateFlags or Exec, writes a diagnostic
\* containing "does not exist" and calls processExit with 1.
C17_UnknownCommand ==
    (Dispatched /\ cmdId \notin DOMAIN registry)
        => /\ bpc \in {"report", "exit", "exited"}
           /\ calls = <<>>
           /\ bpc \in {"exit", "exited"} =>
                 /\ Len(output) = 1
                 /\ Contains(output[1], <<"does not exist">>)
           /\ bpc = "report" => output = <<>>
           /\ exits = IF bpc = "exited" THEN <<1>> ELSE <<>>

\* C17 witness: a name that was never registered was dispatched against a
\* registry that holds other commands; the call ended with exit code 1.
C17_Witness ==
    /\ Dispatched /\ bpc = "exited"
    /\ argv = <<UnknownId>>
    /\ GreetId \in DOMAIN registry
    /\ calls = <<>>
    /\ Contains(output[1], <<"does not exist">>)
    /\ exits = <<1>>

\* C18 (as claimed): a Bootstrap call whose argument vector yields an empty
\* command name ends with the built-in help command run and processExit
\* called with 0, whatever the registry holds.
C18_EmptyNameRunsHelp ==
    (Dispatched /\ bpc = "exited" /\ parseCmdInput(argv).cmdName = <<>>)
        => /\ cmdId = HelpId
           /\ DispatchedCommand.type = "help"
           /\ Call("Exec", "nil") \in Range(calls)
           /\ exits = <<0>>

(***************************************************************************)
(* Properties of parseCmdInput (checked under SpecParse)                   *)
(***************************************************************************)
\* The argument vector without its first token if that is the separator.
AfterSeparator(args) ==
    IF args # <<>> /\ args[1] = Separator THEN SubSeq(args, 2, Len(args)) ELSE args

\* name is token without its leading and trailing whitespace.
IsTrimmed(name, token) ==
    \E a, b \in 0..Len(token) :
        /\ a + b <= Len(token)
        /\ name = SubSeq(token, a + 1, Len(token) - b)
        /\ \A k \in 1..a : token[k] \in Whitespace
        /\ \A k \in (Len(token) - b + 1)..Len(token) : token[k] \in Whitespace
        /\ name # <<>> => name[1] \notin Whitespace /\ name[Len(name)] \notin Whitespace

\* C16: parseCmdInput drops a leading bare separator, also when it is the
\* only token; the first remaining token, trimmed of surrounding
\* whitespace, is the command name and the tokens after it, in order, are
\* the command's arguments; if no token remains the command name is empty.
C16_ParseCmdInput ==
    ppc = "done" =>
        LET rest == AfterSeparator(pargs)
        IN IF rest = <<>>
           THEN pret.cmdName = <<>> /\ pret.cmdArgs = <<>>
           ELSE /\ IsTrimmed(pret.cmdName, rest[1])
                /\ pret.cmdArgs = SubSeq(rest, 2, Len(rest))

\* C16 witness: a separator, a name with whitespace around it and a flag
\* were parsed into the trimmed name and the flag.
C16_Witness ==
    /\ ppc = "done"
    /\ pargs = << Separator, <<" ", "g", "r", "e", "e", "t", " ">>, <<"-", "n">> >>
    /\ pret = [cmdName |-> GreetId, cmdArgs |-> << <<"-", "n">> >>]

(***************************************************************************)
(* Properties of one Bootstrap call (checked under SpecRun)                 *)
(***************************************************************************)
\* The dispatched command was run, its flags parsed and validated and its
\* body returned nil.
RanToSuccess ==
    \/ calls = << Call("DefineFlags", "ok"), Call("Parse", "ok"),
                  Call("ValidateFlags", "nil"), Call("Exec", "nil") >>
    \/ calls = << Call("DefineFlags", "parsed"),
                  Call("ValidateFlags", "nil"), Call("Exec", "nil") >>

\* C19: when the dispatched command's flags parse and validate and its body
\* returns nil, the output holds only what the body wrote, also after
\* Bootstrap has returned, and processExit is called with 0.
C19_SuccessIsSilent ==
    (RanToSuccess /\ bpc \in {"return", "report", "exit", "exited"})
        => /\ output = << ExecOutput(DispatchedCommand) >>
           /\ stdout = <<>>
           /\ exits = IF bpc = "exited" THEN <<0>> ELSE <<>>

\* C19 witness: greet was dispatched with a flag and a value, ran to
\* success, and Bootstrap called processExit with 0.
C19_Witness ==
    /\ bpc = "exited"
    /\ argv = << GreetId, <<"-", "-", "n", "a", "m", "e">>, <<"A", "d", "a">> >>
    /\ RanToSuccess
    /\ output = << <<"Command executed successfully">> >>
    /\ exits = <<0>>

\* The invocation failed: the command does not exist, or the last call
\* made on it returned an error or panicked with an error that runCommand
\* recovered.
Failed ==
    /\ bpc \in {"report", "exit", "exited"}
    /\ \/ calls = <<>>
       \/ calls # <<>> /\ calls[Len(calls)].outcome \in {"error", "panicError"}

\* The text of the cause of the failure.
FailureCause ==
    IF calls = <<>> THEN DoesNotExist(cmdId).text ELSE CauseText(calls[Len(calls)])

\* The writes to the output sink that are diagnostics of the dispatcher.
Diagnostics == { k \in DOMAIN output : Contains(output[k], FailedPrefix) }

\* The writes to the output sink that name the command and the cause of the
\* failure, whoever made them.
CauseReports ==
    { k \in DOMAIN output :
        Contains(output[k], cmdId) /\ Contains(output[k], FailureCause) }

\* What C20 asks of the state of a failed invocation.
C20_State ==
    Failed =>
        /\ bpc = "report" => CauseReports = {}
        /\ bpc \in {"exit", "exited"} =>
              /\ CauseReports = {Len(output)}
              /\ outputErr = NilErr
              /\ Occurrences(output[Len(output)], FailedPrefix) = 1
              /\ Contains(output[Len(output)], cmdId)
              /\ Contains(output[Len(output)], FailureCause)
        /\ \A k \in DOMAIN stdout : ~Contains(stdout[k], FailedPrefix)
        /\ bpc = "exited" => Len(exits) = 1 /\ exits[1] # 0
        /\ bpc # "exited" => exits = <<>>

\* What C20 asks of the step that calls processExit.
C20_Step ==
    (Failed /\ exits' # exits)
        => /\ CauseReports = {Len(output)}
           /\ output' = output
           /\ stdout' = stdout
           /\ Len(exits') = 1 /\ exits'[1] # 0

\* C20: for a failed invocation (unknown command, flag parse failure,
\* validation failure, body error, recovered panic) exactly one text naming
\* the command and the cause is written to the output sink, the diagnostic
\* of the dispatcher, holding the words "Failed to execute command" once; it
\* is written, without a write error, before processExit is called, and
\* processExit is called once, with a non-zero status.
C20_OneDiagnosticThenExit == [] C20_State /\ [][C20_Step]_vars

(***************************************************************************)
(* Properties of required-flag validation (checked under SpecFlags)        *)
(***************************************************************************)
\* The required flags that have no present, non-empty value: not supplied
\* and with an empty default, or supplied as the empty string.
MissingRequiredFlags ==
    { f \in DOMAIN flagDefs :
        /\ flagDefs[f].required
        /\ \/ f \notin DOMAIN flagArgs /\ flagDefs[f].defaultVal = ""
           \/ f \in DOMAIN flagArgs /\ flagArgs[f] = "" }

\* C10: after validation the reported violations name exactly the required
\* flags without a present, non-empty value, all of them; a required flag
\* supplied with a non-empty value is not reported, and without a missing
\* required flag nothing is reported.
C10_AllViolationsReported ==
    vpc = "validated" =>
        /\ { e.flag : e \in violations } = MissingRequiredFlags
        /\ \A e \in violations : e = MissingRequired(e.flag)
        /\ \A f \in DOMAIN flagArgs :
              flagArgs[f] # "" => MissingRequired(f) \notin violations
        /\ MissingRequiredFlags = {} => violations = {}

\* C10 witness: two required flags are missing and both are reported, next
\* to nothing else.
C10_Witness ==
    /\ vpc = "validated"
    /\ Cardinality(MissingRequiredFlags) >= 2
    /\ Cardinality(violations) = Cardinality(MissingRequiredFlags)

(***************************************************************************)
(* The registry over a sequence of calls (checked under SpecRegistry)      *)
(***************************************************************************)
C35_State ==
    \A id \in DOMAIN registered :
        id \in DOMAIN registry /\ registry[id] = registered[id]

C35_Step ==
    /\ \A id \in DOMAIN registry :
          id \in DOMAIN registry' /\ registry'[id] = registry[id]
    /\ registry' # registry
          => \/ regLast'.op = "Register" /\ ops' = ops + 1
             \/ BootstrapDispatch
    /\ BootstrapDispatch => (DOMAIN registry') \ (DOMAIN registry) \subseteq {HelpId}

\* C35: every id a Register call accepted maps to the command it was
\* registered with, in every state; no step removes or replaces an entry of
\* the registry; the registry changes only in a Register call of the caller
\* and in the dispatch of Bootstrap, and there the only id added is "help".
C35_RegistryOnlyGrows == [] C35_State /\ [][C35_Step]_vars

\* C35 witness: after at least two calls of the caller, the last of them a
\* Bootstrap that has returned, greet is the command it was registered
\* with and the help command of Bootstrap is in the registry.
C35_Witness ==
    /\ bpc = "exited"
    /\ GreetId \in DOMAIN registry /\ registry[GreetId] = UserCommand(GreetId)
    /\ registered[GreetId] = UserCommand(GreetId)
    /\ HelpId \in DOMAIN registry /\ registry[HelpId].type = "help"
    /\ regLast.op = "Bootstrap"
    /\ ops >= 2

(***************************************************************************)
(* runCommand as a state machine (checked under SpecRun)                   *)
(***************************************************************************)
\* The stages of runCommand, in the order of the code.
Stages == << "DefineFlags", "Parse", "ValidateFlags", "Exec" >>

\* The position of a stage in Stages.
StageIndex(name) == CHOOSE k \in DOMAIN Stages : Stages[k] = name

\* The call returned without an error and without a panic.
StageSucceeded(c) == c.outcome \in {"ok", "nil", "parsed", "parsedError"}

\* runCommand was called and has ended.
RunCommandEnded ==
    calls # <<>> /\ bpc \in {"report", "exit", "exited", "crashed"}

\* The stages ran one after the other, each at most once, each after the
\* success of the one before.
LinearCalls ==
    /\ \A j, k \in DOMAIN calls :
          j < k => StageIndex(calls[j].name) < StageIndex(calls[k].name)
    /\ \A k \in DOMAIN calls :
          /\ k < Len(calls) => StageSucceeded(calls[k])
          /\ calls[k].name # "DefineFlags" => calls[1].name = "DefineFlags"
          /\ calls[k].name = "Exec" => calls[k - 1].name = "ValidateFlags"
          /\ calls[k].name = "ValidateFlags"
                => (calls[k - 1].name = "Parse" \/ ParsedByDefineFlags(calls))

\* runCommand ended by returning nil after four successful stages, or by
\* returning an error.
SuccessOrError ==
    /\ bpc # "crashed"
    /\ panicVal = NoPanic
    /\ (cmdErr = NilErr)
           <=> (/\ calls[Len(calls)].name = "Exec"
                /\ \A k \in DOMAIN calls : StageSucceeded(calls[k]))

C28_State == LinearCalls /\ (RunCommandEnded => SuccessOrError)

C28_Step ==
    RunCommandEnded => (RunCommandEnded' /\ calls' = calls /\ cmdErr' = cmdErr)

\* C28: DefineFlags, Parse, ValidateFlags and Exec are called at most once
\* each and in this order, each only after the success of the one before;
\* runCommand ends with success or with an error, and once it has ended
\* neither the calls made nor the result change.
C28_LinearStateMachine == [] C28_State /\ [][C28_Step]_vars

\* Bootstrap was called and nothing of it is left to run.
BootstrapEnded == bpc # "idle" /\ ~ENABLED NextRun

C34_State ==
    /\ Len(exits) <= 1
    /\ \A k \in DOMAIN exits : exits[k] \in {0, 1}
    /\ exits # <<>> => bpc = "exited"
    /\ (BootstrapEnded /\ bpc # "crashed") => (bpc = "exited" /\ Len(exits) = 1)
    /\ bpc = "exited" => BootstrapEnded

C34_Step ==
    /\ exits' # exits
          => (exits = <<>> /\ output' = output /\ stdout' = stdout /\ calls' = calls)
    /\ exits # <<>> => UNCHANGED <<exits, output, stdout, calls, registry, cmdErr, bpc>>

\* C34: a Bootstrap call that does not end by a panic ends with exactly one
\* call of processExit, with 0 or 1; the call is its last action: the step
\* that makes it writes nothing and calls nothing else, and after it
\* (processExit having returned) Bootstrap makes no further step, so no
\* second call, no write and no call on the command follows.
C34_ExitOnceAndLast == [] C34_State /\ [][C34_Step]_vars

\* C34 witness: a failed dispatch wrote its diagnostic, called processExit
\* once with 1, and Bootstrap has nothing left to run.
C34_Witness ==
    /\ bpc = "exited"
    /\ cmdErr # NilErr
    /\ exits = <<1>>
    /\ Diagnostics = {Len(output)}
    /\ ~ENABLED NextRun

(***************************************************************************)
(* Properties of the dispatch of a lockable command (checked under         *)
(* SpecLockedRun)                                                          *)
(***************************************************************************)
\* The last call runCommand made on the command.
LastCall == calls[Len(calls)]

\* The dispatch failed: no such command, or a stage did not succeed.
DispatchFailed == calls = <<>> \/ ~StageSucceeded(LastCall)

\* The dispatched command ran to success.
DispatchSucceeded ==
    /\ calls # <<>>
    /\ LastCall.name = "Exec"
    /\ \A k \in DOMAIN calls : StageSucceeded(calls[k])

\* Exec found the lock held by another holder.
LockContention == calls # <<>> /\ LastCall = Call("Exec", "locked")

\* C21: processExit is called at most once, with 0 or 1 and nothing else;
\* with 1 after every failed dispatch (unknown command, flag parse failure,
\* validation failure, error or recovered panic of the body, failed lock,
\* lock contention), with 0 only after the command ran to success.  On lock
\* contention runCommand returns CommandLocked, the diagnostic names it, the
\* wrapped body has not run and the status is 1.
C21_ExitStatus ==
    /\ Len(exits) <= 1
    /\ \A k \in DOMAIN exits : exits[k] \in {0, 1}
    /\ bpc = "exited" => Len(exits) = 1
    /\ (bpc = "exited" /\ DispatchFailed) => exits = <<1>>
    /\ exits = <<0>> => (DispatchSucceeded /\ executed[RegisteredInstance])
    /\ (LockContention /\ bpc \in {"return", "report", "exit", "exited"})
           => /\ cmdErr = AsError(CommandLocked)
              /\ ~executed[RegisteredInstance]
              /\ bpc \in {"exit", "exited"}
                    => /\ Diagnostics = {Len(output)}
                       /\ Contains(output[Len(output)], ErrorText(CommandLocked))
              /\ bpc = "exited" => exits = <<1>>

\* C21 witness: the lockable command was dispatched while another process
\* held its lock; Bootstrap wrote the diagnostic and called processExit
\* with 1, and the wrapped body has not run.
C21_Witness ==
    /\ bpc = "exited"
    /\ LockContention
    /\ HeldByOther(RegisteredInstance)
    /\ ~executed[RegisteredInstance]
    /\ output = << FailedToExecute(WrappedId, AsError(CommandLocked)) >>
    /\ exits = <<1>>

\* Bootstrap's registration of the help command fails in the state.
HelpRegistrationFails ==
    Register(registry, HelpCommand(Values(Commands(registry)))).err # NilErr

C22_Step ==
    /\ (BootstrapDispatch /\ HelpRegistrationFails) => cmdErr' # NilErr
    /\ (RunExecDeferred /\ last'.unlockRet = ErrInfra) => cmdErr' # NilErr

C22_State ==
    (bpc = "exited" /\ cmdErr # NilErr) => (Diagnostics # {} /\ exits = <<1>>)

\* C22: every error produced during a dispatch reaches the dispatcher: when
\* the registration of the help command fails in Bootstrap, and when the
\* release of the lock fails in Exec of a lockable command, the dispatch has
\* a non-nil error; and a dispatch with a non-nil error ends with a
\* diagnostic and the exit status 1.
C22_NoErrorSwallowed == [] C22_State /\ [][C22_Step]_vars

C27_Step ==
    RunExecDeferred =>
        LET a == CHOOSE b \in Activations : pc[RegisteredInstance][b] = "deferred"
            o == bodyOutcome[RegisteredInstance][a]
        IN /\ last'.op = "Exec" /\ last'.inst = RegisteredInstance
           /\ last'.lockRet.locked
           /\ last'.bodyRuns = 1
           /\ o = "nil" => /\ last'.ret = ReturnOf(NilErr)
                           /\ cmdErr' = NilErr
                           /\ calls' = Append(calls, Call("Exec", "nil"))
           /\ o = "error" => /\ last'.ret = ReturnOf(ErrBody)
                             /\ cmdErr' = ErrExec
                             /\ calls' = Append(calls, Call("Exec", "error"))
           /\ o = "panic" => /\ last'.ret.kind = "panic"
                             /\ cmdErr' = NilErr
                             /\ panicVal' = panicVal
           /\ output' = output

\* C27: an Exec of the lockable command that acquired the lock returns what
\* the wrapped command's Exec returned, nil as nil and an error as the same
\* error, whether or not the release of the lock failed; runCommand then
\* holds the result, the call record and the output a dispatch of the
\* wrapped command itself would have given.
C27_ExecResultUnchanged == [][C27_Step]_vars

\* C27 witness: the wrapped command returned an error, the release of the
\* lock failed, and runCommand holds the error of the wrapped command.
C27_Witness ==
    /\ bpc = "return"
    /\ last.op = "Exec" /\ last.inst = RegisteredInstance
    /\ last.unlockRet = ErrInfra
    /\ last.ret = ReturnOf(ErrBody)
    /\ cmdErr = ErrExec
    /\ LastCall = Call("Exec", "error")

\* runCommand has not reached Exec, or has ended without reaching it.
BeforeExecStage ==
    \/ bpc \in {"idle", "define", "parse", "validate"}
    \/ bpc \in {"return", "report", "exit", "exited", "crashed"}
          /\ (calls = <<>> \/ LastCall.name # "Exec")

C32_State ==
    BeforeExecStage =>
        /\ last.inst # RegisteredInstance
        /\ ~acquired[RegisteredInstance]
        /\ lockTable[PathOf(RegisteredInstance)] # RegisteredInstance
        /\ ~executed[RegisteredInstance]
        /\ ~InExec(RegisteredInstance)
        /\ cmdErr # AsError(CommandLocked)

C32_Step ==
    /\ (BootstrapDispatch \/ RunDefineFlags \/ RunParse \/ RunValidateFlags)
           => UNCHANGED lockVars
    /\ (RunExecLock \/ RunExecBody \/ RunExecDeferred)
           => /\ calls # <<>>
              /\ calls[1].name = "DefineFlags" /\ StageSucceeded(calls[1])
              /\ Call("Parse", "ok") \in Range(calls) \/ ParsedByDefineFlags(calls)
              /\ Call("Parse", "error") \notin Range(calls)
              /\ Call("ValidateFlags", "nil") \in Range(calls)

\* C32: the registered lockable command calls Lock() only in its Exec.  As
\* long as runCommand has not reached Exec, and after it ended on a failed
\* DefineFlags, flag parse or ValidateFlags, no call was made on the lock of
\* the registered instance: it holds nothing, the lock file is as the other
\* processes left it, and the result is not CommandLocked.  The dispatch,
\* DefineFlags, Parse and ValidateFlags leave the lock state alone, and the
\* steps of Exec come only after the three stages succeeded.
C32_LockOnlyInExec == [] C32_State /\ [][C32_Step]_vars

\* C32 witness: another process holds the lock of the registered command,
\* the dispatch ended on a failed flag parse with status 1, and no call was
\* made on the lock of the registered instance.
C32_Witness ==
    /\ bpc = "exited"
    /\ calls # <<>>
    /\ LastCall = Call("Parse", "error")
    /\ HeldByOther(RegisteredInstance)
    /\ last.inst # RegisteredInstance
    /\ cmdErr = ErrParse
    /\ exits = <<1>>

(***************************************************************************)
(* Properties of the lock identity (checked under SpecCtor)                *)
(***************************************************************************)
\* The logical name the k-th constructor call was made with.
LogicalName(k) ==
    IF ctorArgs[k].ctor = "NewLockableCommand"
    THEN ctorArgs[k].cmd
    ELSE ctorArgs[k].lockName

SameIdentity(j, k) ==
    /\ LogicalName(j) = LogicalName(k)
    /\ ctorArgs[j].dir = ctorArgs[k].dir

\* C24: two instances constructed with the same logical name and the same
\* directory have the same lock file path, whatever command each wraps and
\* whichever call built them; an instance built by NewLockableCommand(cmd,
\* dir) has the path of NewLockableCommandWithLockName(cmd, dir, cmd.Id()).
C24_IdentityIsDeterministic ==
    /\ \A j, k \in DOMAIN built :
          SameIdentity(j, k) => built[j].lockFilePath = built[k].lockFilePath
    /\ \A k \in DOMAIN built :
          ctorArgs[k].ctor = "NewLockableCommand"
              => /\ built[k].lockFilePath
                       = NewLockableCommandWithLockName(ctorArgs[k].cmd, ctorArgs[k].dir,
                                                        ctorArgs[k].cmd).lockFilePath
                 /\ \A c \in WrappedIds :
                       built[k].lockFilePath
                           = NewLockableCommandWithLockName(c, ctorArgs[k].dir,
                                                            ctorArgs[k].cmd).lockFilePath

\* C24 witness: NewLockableCommand on the command "a.b" and
\* NewLockableCommandWithLockName on another command with the lock name
\* "a.b", in the same directory, gave one path.
C24_Witness ==
    /\ Len(built) = 2
    /\ ctorArgs[1].ctor = "NewLockableCommand"
    /\ ctorArgs[1].cmd = <<"a", ".", "b">>
    /\ ctorArgs[2].ctor = "NewLockableCommandWithLockName"
    /\ ctorArgs[2].cmd = WrappedId
    /\ ctorArgs[2].lockName = <<"a", ".", "b">>
    /\ ctorArgs[1].dir = ctorArgs[2].dir
    /\ built[1].Command # built[2].Command
    /\ built[1].lockFilePath = built[2].lockFilePath

\* The holder of every lock file is an instance that was told "acquired" by
\* its Lock().
C33_State ==
    \A p \in DOMAIN lockTable :
        lockTable[p] # 0 => (lockTable[p] \in Instances /\ acquired[lockTable[p]])

C33_Step ==
    /\ built' # built
           => /\ lockTable' = lockTable
              /\ acquired' = acquired
              /\ last'.op = "New"
    /\ \A p \in DOMAIN lockTable :
           (lockTable[p] = 0 /\ lockTable'[p] # 0)
               => /\ built' = built
                  /\ last'.op = "Lock"
                  /\ last'.lockRet.locked
                  /\ lockTable'[p] = last'.inst

\* C33: a call of NewLockableCommand or NewLockableCommandWithLockName
\* leaves every lock as it is (a free one free, a held one held by the same
\* instance) and makes no instance a holder; a lock file goes from free to
\* held only in a call of Lock() that returns true, and its holder is the
\* instance Lock() was called on.
C33_ConstructorLeavesLock == [] C33_State /\ [][C33_Step]_vars

\* C33 witness: instance 2 took the lock, then an FsLockableCommand was
\* constructed for the same lock file; the lock is still held by instance 2.
C33_Witness ==
    /\ last.op = "New"
    /\ last.prevOp = "Lock"
    /\ last.prevInst = 2
    /\ Len(built) = 1
    /\ built[1].lockFilePath = PathOf(2)
    /\ lockTable[PathOf(2)] = 2
    /\ acquired[2]

\* l.Lock() on an instance with the lock file q while a handle on the lock
\* file p holds its lock and the file system does not fail.
LockWhileHeld(p, q, id) ==
    LET tbl == [f \in {p, q} |-> IF f = p THEN 1 ELSE 0]
    IN Lock(id, FileLockLock(tbl, q, 2, FALSE).err)

\* C25: two instances constructed in the same directory with distinct
\* logical names have distinct lock file paths, also when the names
\* normalize to the same string; Lock() of the one acquires while the lock
\* of the other is held.
C25_DistinctNamesDistinctPaths ==
    \A j, k \in DOMAIN built :
        (ctorArgs[j].dir = ctorArgs[k].dir /\ LogicalName(j) # LogicalName(k))
            => /\ built[j].lockFilePath # built[k].lockFilePath
               /\ LockWhileHeld(built[j].lockFilePath, built[k].lockFilePath,
                                built[k].Command).locked

\* C25 witness: "a.b" and "a b", both normalized to "a-b", in one
\* directory; two paths, and the second lock is acquired while the first is
\* held.
C25_Witness ==
    /\ Len(built) = 2
    /\ LogicalName(1) = <<"a", ".", "b">>
    /\ LogicalName(2) = <<"a", " ", "b">>
    /\ ctorArgs[1].dir = ctorArgs[2].dir
    /\ normalizeCommandId(LogicalName(1)) = <<"a", "-", "b">>
    /\ normalizeCommandId(LogicalName(2)) = <<"a", "-", "b">>
    /\ built[1].lockFilePath.norm = built[2].lockFilePath.norm
    /\ built[1].lockFilePath # built[2].lockFilePath
    /\ LockWhileHeld(built[1].lockFilePath, built[2].lockFilePath, built[2].Command)
           = [locked |-> TRUE, err |-> NilErr]

====
